---- MODULE Spec2Model ----
(***************************************************************************)
(* A model of the dcps instrument drivers and of the power-test sweep:     *)
(*   - src/dcps/power_tests.py: the command-line driver (__main__) and     *)
(*     DCTest, the nested sweep with its teardown and persistence, and     *)
(*     handleFilename with dataSaveNPZ on the output directory;            *)
(*   - src/dcps.py: the RigolDP832A supply driver (channel validation,     *)
(*     ON/OFF parsing, the operation-complete wait, the channel-addressed  *)
(*     operations);                                                        *)
(*   - src/dcps/Keithley6500.py: the Keithley6500 multimeter driver        *)
(*     (no-op methods, function selection, adjustments, measurements).     *)
(* Voltages are integers in tenths of a volt, currents in hundredths of an *)
(* ampere; a device response is a sequence of one-character strings.       *)
(***************************************************************************)
EXTENDS Integers, Sequences, FiniteSets, TLC

(* ------------------------------ bounds -------------------------------- *)
\* the --trials argument ranges over 1..MaxTrials (the parser allows 1..20)
MaxTrials == 2
\* the input-voltage sequence of a profile has 1..MaxVins points
MaxVins == 2
\* the load sequence of a profile has 1..MaxLoads points
MaxLoads == 2
\* the circuit list given on the command line has 1..MaxCircuits entries
MaxCircuits == 2
\* channel arguments range over (1 - ChanSpan)..(max_chan + ChanSpan)
ChanSpan == 2
\* the commands of one driver call that are kept in rg.sent (the first ones)
MaxSent == 3
\* the largest suffix number of a file found in the output directory
MaxSuffix == 2
\* the seconds of the clock, and the datasets saved, in a run of the file model
MaxClock == 2
MaxSaves == 2

(* ------------------------- sweep parameters --------------------------- *)
\* rangef(start, stop, step): the inclusive range, here in integer units
rangef(start, stop, step) ==
    [i \in 1..(((stop + step) - start) \div step) |-> start + (i - 1) * step]

\* def_vins = rangef(10.8, 13.2, 0.1, 1), cut to n points (tenths of a volt)
def_vins(n) == rangef(108, 107 + n, 1)

\* the keys of the DCTestParams table
DCTestParamKeys == {"1V8-A"}

\* a circuit the test board may know and DCTestParams has no entry for
NoParamCircuit == "NOPARAM"

\* the load values a profile's load sequence is drawn from (0 = no load)
LoadValues == {0, 2}

RECURSIVE SeqsUpTo(_, _)
SeqsUpTo(S, n) ==
    IF n = 0 THEN {<<>>}
    ELSE LET shorter == SeqsUpTo(S, n - 1)
         IN  shorter \cup {Append(s, x) : s \in shorter, x \in S}

\* the lists of loads the model runs with: as in the '1V8-A' entry, a first
\* load followed by loads on the other side of zero (0, 2, 2, ...), and the
\* opposite shape (2, 0, 0, ...)
LoadLists ==
    {l \in SeqsUpTo(LoadValues, MaxLoads) :
        /\ l # <<>>
        /\ \A i \in 2..Len(l) : l[i] # l[1]}

\* the DCTestParam records the model runs with: the '1V8-A' entry with its
\* two sequences cut to the bounds
DCTestParamSet ==
    [upper : {20}, max_iin : {510}, ovp : {161}, ocp : {750},
     vins  : {def_vins(n) : n \in 1..MaxVins},
     loads : LoadLists]

\* the circuit lists of the command line: known circuits, possibly ending in
\* one that has no DCTestParams entry
RECURSIVE Repeat(_, _)
Repeat(x, n) == IF n = 0 THEN <<>> ELSE Append(Repeat(x, n - 1), x)

CircuitLists ==
    {Repeat("1V8-A", n) : n \in 1..MaxCircuits}
      \cup {Append(Repeat("1V8-A", n - 1), NoParamCircuit) : n \in 1..MaxCircuits}

(* --------------------------- device responses ------------------------- *)
\* a measurement query answers a number, or a text float() cannot parse
Numeric(v) == [num |-> TRUE, val |-> v]

NonNumeric == [num |-> FALSE, val |-> 0]

\* the numeric answers of each measurement query
Readings(inst, cmd) ==
    CASE inst = "PS"    /\ cmd = "measureVoltage" -> {120}
      [] inst = "PS"    /\ cmd = "measureCurrent" -> {5, 25}
      [] inst = "DMM"   /\ cmd = "READ?"          -> {18}
      [] inst = "ELOAD" /\ cmd = "measureCurrent" -> {2}
      [] OTHER                                  -> {0}

Instruments == {"PS", "DMM", "ELOAD"}

VARIABLES
    args,        \* the parsed command line: [trials, circuits]
    param,       \* DCTestParams['1V8-A']
    pc,          \* the statement the driver is at
    ip,          \* the instruction of the current straight-line block
    circIdx,     \* position of `circ` in circuit_list (0 before the loop)
    opened,      \* per instrument: "unopened", "open" or "closed"
    dev,         \* what the instruments were last commanded to
    io,          \* the last command issued: [n, inst, cmd, arg], n its parity
    trial, vinIdx, loadIdx,     \* the three loop positions of DCTest
    loc,         \* DCTest's locals holding measurements
    data,        \* DCTest's result rows
    trialsDone,  \* DCTest's completed-trial counter
    intr,        \* the signal the except clause caught: [k, at], the rows
                 \* held then and the statement it was raised at; k = -1 if none
    saved,       \* the datasets handed to dataSaveNPZ, oldest first
    exc,         \* the exception that ended the process: [kind, at], or none
    rg,          \* a RigolDP832A object, its session and its current call
    km,          \* a Keithley6500 object, its session, its selected function
                 \* and channel, and its current call
    fs           \* the output directory, the clock, and the current call of
                 \* handleFilename and dataSaveNPZ

vars == <<args, param, pc, ip, circIdx, opened, dev, io, trial, vinIdx,
          loadIdx, loc, data, trialsDone, intr, saved, exc, rg, km, fs>>

\* the driver objects and the file functions exercised on their own
libVars == <<rg, km, fs>>

\* the state of the command-line driver and of DCTest
testVars == <<args, param, pc, ip, circIdx, opened, dev, io, trial, vinIdx,
              loadIdx, loc, data, trialsDone, intr, saved, exc>>

sweepVars == <<trial, vinIdx, loadIdx, data, trialsDone, intr>>

NoExc == [kind |-> "none", at |-> "none"]

NoIntr == [k |-> -1, at |-> "none"]

(* ------------------------- instructions ------------------------------- *)
\* kind: "w" a write, "q" a query whose answer is stored in dst, "n" a
\* method that sends nothing, "open"/"close" the session calls
Ins(inst, cmd, arg, kind, dst) ==
    [inst |-> inst, cmd |-> cmd, arg |-> arg, kind |-> kind, dst |-> dst]
W(inst, cmd, arg) == Ins(inst, cmd, arg, "w", "none")
Q(inst, cmd, dst) == Ins(inst, cmd, 0, "q", dst)
N(inst, cmd)      == Ins(inst, cmd, 0, "n", "none")

\* instrumentInit(instr); the multimeter's setRemoteLock and beeperOff send
\* nothing (Keithley6500.py)
instrumentInit(instr) ==
    << W(instr, "rst", 0), W(instr, "cls", 0),
       IF instr = "DMM" THEN N(instr, "setRemoteLock") ELSE W(instr, "setRemoteLock", 0),
       IF instr = "DMM" THEN N(instr, "beeperOff") ELSE W(instr, "beeperOff", 0) >>

\* Keithley6500.setLocal: a write, then a query
setLocal(instr) ==
    IF instr = "DMM"
    THEN << W(instr, "TRIG:CONT REST", 0), Q(instr, "-LOGOUT", "none") >>
    ELSE << W(instr, "setLocal", 0) >>

\* instrumentStop(instr); the multimeter's inputOff, outputOff and beeperOn
\* send nothing
instrumentStop(instr) ==
    IF instr = "DMM"
    THEN << N(instr, "inputOff"), N(instr, "outputOff"), N(instr, "beeperOn") >>
           \o setLocal(instr)
    ELSE << W(instr, "inputOff", 0), W(instr, "outputOff", 0),
            W(instr, "beeperOn", 0) >> \o setLocal(instr)

\* measurePowerValues(ps), its two answers stored in dstV and dstI
measurePowerValues(dstV, dstI) ==
    << Q("PS", "measureVoltage", dstV), Q("PS", "measureCurrent", dstI) >>

\* setPowerValues(ps, voltage, current, OVP, OCP); -1 stands for None
setPowerValues(voltage, current, OVP, OCP) ==
    << W("PS", "setVoltage", voltage), W("PS", "setCurrent", current) >>
    \o (IF OVP # -1 THEN << W("PS", "setVoltageProtection", OVP),
                            W("PS", "voltageProtectionOn", 0) >> ELSE <<>>)
    \o (IF OCP # -1 THEN << W("PS", "setCurrentProtection", OCP),
                            W("PS", "currentProtectionOn", 0) >> ELSE <<>>)
    \o measurePowerValues("none", "none")

\* Keithley6500.measureVoltage: setMeasureFunction("VoltageDC"), then READ?
dmmMeasureVoltage(dst) ==
    << W("DMM", "setMeasureFunction", 0), Q("DMM", "READ?", dst) >>

\* a variant of __main__ that does not open the load
MainPreBlockNoEloadOpen ==
    << Ins("PS", "open", 0, "open", "none") >> \o instrumentInit("PS")
    \o << W("PS", "outputOff", 1),
          Ins("DMM", "open", 0, "open", "none") >>

\* __main__ before the circuit loop
MainPreBlock ==
    << Ins("PS", "open", 0, "open", "none") >> \o instrumentInit("PS")
    \o << W("PS", "outputOff", 1),
          Ins("DMM", "open", 0, "open", "none"),
          Ins("ELOAD", "open", 0, "open", "none") >>

\* __main__ after the circuit loop
MainCloseBlock ==
    << Ins("ELOAD", "close", 0, "close", "none"),
       Ins("DMM", "close", 0, "close", "none"),
       Ins("PS", "close", 0, "close", "none") >>

\* a variant of the initialization that enables the supply's output before
\* the supply is programmed
DCInitBlockOutputFirst(p) ==
    << W("PS", "outputOff", 0) >>
    \o instrumentInit("DMM") \o instrumentInit("ELOAD")
    \o << W("DMM", "setMeasureFunction", 0), W("DMM", "setAutoZero", 1),
          W("DMM", "setIntegrationTime", 14), W("DMM", "setAsciiPrecision", 8),
          W("DMM", "setMeasureRange", p.upper), N("DMM", "inputOn"),
          W("ELOAD", "inputOff", 0), W("ELOAD", "setFunction", 0),
          W("ELOAD", "setSenseState", 1) >>
    \o << W("PS", "outputOn", 0) >>
    \o setPowerValues(p.vins[1], p.max_iin, p.ovp, p.ocp)
    \o measurePowerValues("startV", "startI")
    \o << W("PTB", "powerEnable", 1) >>
    \o measurePowerValues("baseV", "baseI")

\* DCTest from its first statement to the second baseline
DCInitBlock(p) ==
    << W("PS", "outputOff", 0) >>
    \o instrumentInit("DMM") \o instrumentInit("ELOAD")
    \o << W("DMM", "setMeasureFunction", 0), W("DMM", "setAutoZero", 1),
          W("DMM", "setIntegrationTime", 14), W("DMM", "setAsciiPrecision", 8),
          W("DMM", "setMeasureRange", p.upper), N("DMM", "inputOn"),
          W("ELOAD", "inputOff", 0), W("ELOAD", "setFunction", 0),
          W("ELOAD", "setSenseState", 1) >>
    \o setPowerValues(p.vins[1], p.max_iin, p.ovp, p.ocp)
    \o << W("PS", "outputOn", 0) >>
    \o measurePowerValues("startV", "startI")
    \o << W("PTB", "powerEnable", 1) >>
    \o measurePowerValues("baseV", "baseI")

\* the body of `for vin` before the load loop
SetVinBlock(p, vin) == setPowerValues(vin, p.max_iin, -1, -1)

\* a variant of the measurements that reads the load and the multimeter
\* before the supply
MeasureBlockOutputFirst ==
    dmmMeasureVoltage("outVoltage")
    \o << Q("ELOAD", "measureCurrent", "outCurrent") >>
    \o measurePowerValues("psVoltage", "psCurrent")

\* the measurements of one sampling iteration
MeasureBlock ==
    measurePowerValues("psVoltage", "psCurrent")
    \o dmmMeasureVoltage("outVoltage")
    \o << Q("ELOAD", "measureCurrent", "outCurrent") >>

\* a variant of the end of DCTest that stops the supply before the board
StopBlockSupplyFirst ==
    instrumentStop("ELOAD") \o instrumentStop("DMM")
    \o instrumentStop("PS")
    \o << W("PTB", "powerEnable", 0) >>

\* DCTest after the dataset was saved
StopBlock ==
    instrumentStop("ELOAD") \o instrumentStop("DMM")
    \o << W("PTB", "powerEnable", 0) >>
    \o instrumentStop("PS")


(* ------------------- src/dcps.py: class RigolDP832A -------------------- *)
\* self._max_chan
max_chan == 3

ChannelArgs == (1 - ChanSpan)..(max_chan + ChanSpan)

Min(a, b) == IF a < b THEN a ELSE b

\* Python's s[:n]
Prefix(s, n) == SubSeq(s, 1, Min(n, Len(s)))

\* the result of a Python expression: a value or a raised exception
Ok(v)    == [ok |-> TRUE, val |-> v, err |-> "none"]
Err(e)   == [ok |-> FALSE, val |-> "none", err |-> e]

\* 'CH{}'.format(channel) and '{}'.format(channel) for the valid channels
FormatCH(channel) == <<"CH1", "CH2", "CH3">>[channel]
FormatN(channel)  == <<"1", "2", "3">>[channel]

\* a variant of _chStr that clamps the channel into range instead of failing
chStrClamped(channel) ==
    Ok(FormatCH(IF channel < 1 THEN 1 ELSE Min(channel, max_chan)))

\* _chStr(channel)
chStr(channel) ==
    IF (channel < 1) \/ (channel > max_chan)
    THEN Err("ValueError")
    ELSE Ok(FormatCH(channel))

\* a variant of _chanStr whose upper test is off by one
chanStrOffByOne(channel) ==
    IF (channel < 1) \/ (channel > max_chan + 1)
    THEN Err("ValueError")
    ELSE Ok(FormatN(Min(channel, max_chan)))

\* _chanStr(channel)
chanStr(channel) ==
    IF (channel < 1) \/ (channel > max_chan)
    THEN Err("ValueError")
    ELSE Ok(FormatN(channel))

\* a variant of _onORoff that compares the whole response
onORoffWhole(str) == str = <<"O", "N">>

\* _onORoff(str)
onORoff(str) == IF Prefix(str, 2) = <<"O", "N">> THEN TRUE ELSE FALSE

(* float(text) for texts over digits, sign, point, blank and letters other
   than those of exponents, "inf", "nan" and "_" *)
DigitChars == <<"0", "1", "2", "3", "4", "5", "6", "7", "8", "9">>

DigitSet == {DigitChars[i] : i \in 1..10}

DigitVal(c) == (CHOOSE i \in 1..10 : DigitChars[i] = c) - 1

Blank == {" ", "\n"}

RECURSIVE LStrip(_)
LStrip(s) == IF s # <<>> /\ Head(s) \in Blank THEN LStrip(Tail(s)) ELSE s

RECURSIVE RStrip(_)
RStrip(s) ==
    IF s # <<>> /\ s[Len(s)] \in Blank THEN RStrip(SubSeq(s, 1, Len(s) - 1)) ELSE s

RECURSIVE DigitsValue(_)
DigitsValue(s) ==
    IF s = <<>> THEN 0
    ELSE 10 * DigitsValue(SubSeq(s, 1, Len(s) - 1)) + DigitVal(s[Len(s)])

\* the number m / 10^e, without trailing zeros in the fraction
RECURSIVE Decimal(_, _)
Decimal(m, e) ==
    IF e > 0 /\ m % 10 = 0 THEN Decimal(m \div 10, e - 1) ELSE [m |-> m, e |-> e]

\* a variant of float() that answers 0 for a text that is no numeral
floatOrZero(text) ==
    LET t      == RStrip(LStrip(text))
        signed == t # <<>> /\ t[1] \in {"+", "-"}
        body   == IF signed THEN Tail(t) ELSE t
        dots   == {i \in 1..Len(body) : body[i] = "."}
        digs   == {i \in 1..Len(body) : body[i] \in DigitSet}
        mant   == DigitsValue(SelectSeq(body, LAMBDA c : c \in DigitSet))
        scale  == IF dots = {} THEN 0
                  ELSE Len(body) - (CHOOSE i \in dots : TRUE)
    IN  IF Cardinality(dots) <= 1 /\ digs # {} /\ dots \cup digs = 1..Len(body)
        THEN Ok(Decimal(IF signed /\ t[1] = "-" THEN 0 - mant ELSE mant, scale))
        ELSE Ok(Decimal(0, 0))

float(text) ==
    LET t      == RStrip(LStrip(text))
        signed == t # <<>> /\ t[1] \in {"+", "-"}
        body   == IF signed THEN Tail(t) ELSE t
        dots   == {i \in 1..Len(body) : body[i] = "."}
        digs   == {i \in 1..Len(body) : body[i] \in DigitSet}
        mant   == DigitsValue(SelectSeq(body, LAMBDA c : c \in DigitSet))
        scale  == IF dots = {} THEN 0
                  ELSE Len(body) - (CHOOSE i \in dots : TRUE)
    IN  IF Cardinality(dots) <= 1 /\ digs # {} /\ dots \cup digs = 1..Len(body)
        THEN Ok(Decimal(IF signed /\ t[1] = "-" THEN 0 - mant ELSE mant, scale))
        ELSE Err("ValueError")

\* the texts the supply can answer a query with
RgResponses ==
    { <<>>, <<"O">>, <<"O", "N">>, <<"O", "N", "\n">>, <<"O", "N", " ", " ">>,
      <<"O", "F", "F">>, <<"O", "F", "F", "\n">>, <<"o", "n">>, <<"N", "O">>,
      <<" ", "O", "N">>, <<"O", "N", "X">>,
      <<"1">>, <<"1", "\n">>, <<"0">>, <<"0", "\n">>, <<"+", "1">>,
      <<"1", "2", ".", "5", "0">>, <<"-", "0", ".", "5", "\n">>, <<"1", ".", "2", ".">> }

\* the values setVoltage and setCurrent are called with
RgValues == {0, 27}

NoRet == [kind |-> "none", b |-> FALSE, m |-> 0, e |-> 0, s |-> "none"]
BoolRet(b)  == [NoRet EXCEPT !.kind = "bool", !.b = b]
FloatRet(d) == [NoRet EXCEPT !.kind = "float", !.m = d.m, !.e = d.e]
StrRet(x)   == [NoRet EXCEPT !.kind = "str", !.s = x]
TextRet     == [NoRet EXCEPT !.kind = "text"]

\* a command or query as sent to the device: the format text, the channel
\* text and the value put into it; "-" where the command has none
Cmd(text, ch, v) == [text |-> text, ch |-> ch, v |-> v]

RgInit ==
    [session |-> "unopened", pc |-> "idle", op |-> "none", chan |-> 0, arg |-> 0,
     sent |-> <<>>, resp |-> <<>>, outcome |-> "none", err |-> "none", ret |-> NoRet]

\* the call op(chan, arg) begins: nothing sent or received yet
RgEnter(op, chan, arg) ==
    [rg EXCEPT !.op = op, !.chan = chan, !.arg = arg, !.sent = <<>>,
               !.resp = <<>>, !.outcome = "none", !.err = "none", !.ret = NoRet]

RgSent(r, c) == IF Len(r.sent) < MaxSent THEN Append(r.sent, c) ELSE r.sent

\* the call ends by raising e
RgRaise(r, e) == [r EXCEPT !.pc = "idle", !.outcome = "raised", !.err = e]

\* the call ends by returning v
RgReturn(r, v) == [r EXCEPT !.pc = "idle", !.outcome = "returned", !.ret = v]

\* the ways self._inst.write(c) can end in call r: the attribute _inst is
\* missing before open(); the session is invalid after close(); on an open
\* session the command is sent, and the transport may fail
RgWrite(r, c) ==
    IF r.session = "unopened" THEN {RgRaise(r, "AttributeError")}
    ELSE IF r.session = "closed" THEN {RgRaise(r, "InvalidSession")}
    ELSE {[r EXCEPT !.sent = RgSent(r, c)],
          RgRaise([r EXCEPT !.sent = RgSent(r, c)], "TransportError")}

\* the ways self._inst.query(c) can end in call r; resp is the answer
RgQuery(r, c) ==
    IF r.session = "unopened" THEN {RgRaise(r, "AttributeError")}
    ELSE IF r.session = "closed" THEN {RgRaise(r, "InvalidSession")}
    ELSE {[r EXCEPT !.sent = RgSent(r, c), !.resp = a] : a \in RgResponses}
         \cup {RgRaise([r EXCEPT !.sent = RgSent(r, c)], "TransportError")}

\* an exception raised by a statement ends the call; otherwise it goes on
RgRaised(r) == r.outcome = "raised"

RgIdle == rg.pc = "idle"

\* open()
RgOpen ==
    /\ RgIdle
    /\ \/ rg' = RgReturn([RgEnter("open", 0, 0) EXCEPT !.session = "open"], NoRet)
       \/ rg' = RgRaise(RgEnter("open", 0, 0), "TransportError")
    /\ UNCHANGED <<testVars, km, fs>>

\* close()
RgClose ==
    /\ RgIdle
    /\ LET r == RgEnter("close", 0, 0)
       IN  IF r.session = "unopened" THEN rg' = RgRaise(r, "AttributeError")
           ELSE rg' = RgReturn([r EXCEPT !.session = "closed"], NoRet)
    /\ UNCHANGED <<testVars, km, fs>>

\* a direct call of _chStr(channel)
RgChStr ==
    /\ RgIdle
    /\ \E channel \in ChannelArgs :
         LET r == RgEnter("_chStr", channel, 0)
             c == chStr(channel)
         IN  rg' = IF c.ok THEN RgReturn(r, StrRet(c.val)) ELSE RgRaise(r, c.err)
    /\ UNCHANGED <<testVars, km, fs>>

\* a direct call of _chanStr(channel)
RgChanStr ==
    /\ RgIdle
    /\ \E channel \in ChannelArgs :
         LET r == RgEnter("_chanStr", channel, 0)
             c == chanStr(channel)
         IN  rg' = IF c.ok THEN RgReturn(r, StrRet(c.val)) ELSE RgRaise(r, c.err)
    /\ UNCHANGED <<testVars, km, fs>>

\* _wait() up to the loop: self._inst.write('*OPC')
RgWaitBegin ==
    /\ RgIdle
    /\ \E r \in RgWrite(RgEnter("_wait", 0, 0), Cmd("*OPC", "-", 0)) :
         rg' = IF RgRaised(r) THEN r ELSE [r EXCEPT !.pc = "polling"]
    /\ UNCHANGED <<testVars, km, fs>>

\* a variant of the loop body that leaves the loop on any non-empty answer
WaitCheckAny(r) ==
    IF r.resp = <<>> THEN RgRaise(r, "IndexError") ELSE RgReturn(r, NoRet)

\* a variant of the loop body that gives up after a number of queries
WaitCheckGivesUp(r) ==
    IF r.resp = <<>> THEN RgRaise(r, "IndexError")
    ELSE IF r.resp[1] = "1" THEN RgReturn(r, NoRet)
    ELSE IF Len(r.sent) >= MaxSent THEN RgRaise(r, "TimeoutError")
    ELSE r

\* ret[0] == '1' ends the loop, and with it _wait()
WaitCheck(r) ==
    IF r.resp = <<>> THEN RgRaise(r, "IndexError")
    ELSE IF r.resp[1] = "1" THEN RgReturn(r, NoRet)
    ELSE r

\* one turn of the loop of _wait(): ret = self._inst.query('*OPC?')
RgWaitPoll ==
    /\ rg.pc = "polling"
    /\ \E r \in RgQuery(rg, Cmd("*OPC?", "-", 0)) :
         rg' = IF RgRaised(r) THEN r ELSE WaitCheck(r)
    /\ UNCHANGED <<testVars, km, fs>>

\* idn()
RgIdn ==
    /\ RgIdle
    /\ \E r \in RgQuery(RgEnter("idn", 0, 0), Cmd("*IDN?", "-", 0)) :
         rg' = IF RgRaised(r) THEN r ELSE RgReturn(r, TextRet)
    /\ UNCHANGED <<testVars, km, fs>>

\* setLocal(), setRemote(), setRemoteLock()
RgSetMode ==
    /\ RgIdle
    /\ \E m \in {<<"setLocal", ":SYSTem:LOCal">>, <<"setRemote", ":SYSTem:REMote">>,
                 <<"setRemoteLock", ":SYSTem:RWLock ON">>} :
         \E r \in RgWrite(RgEnter(m[1], 0, 0), Cmd(m[2], "-", 0)) :
            rg' = IF RgRaised(r) THEN r ELSE RgReturn(r, NoRet)
    /\ UNCHANGED <<testVars, km, fs>>

\* a method that formats its command with the channel text c, the result of
\* _chStr(channel) or _chanStr(channel), and writes it
RgChannelWrite(op, channel, v, c, text) ==
    LET r == RgEnter(op, channel, v)
    IN  IF ~c.ok THEN rg' = RgRaise(r, c.err)
        ELSE \E r2 \in RgWrite(r, Cmd(text, c.val, v)) :
                rg' = IF RgRaised(r2) THEN r2 ELSE RgReturn(r2, NoRet)

ConvOnOff(resp) == Ok(BoolRet(onORoff(resp)))

ConvFloat(resp) ==
    LET x == float(resp) IN IF x.ok THEN Ok(FloatRet(x.val)) ELSE Err(x.err)

\* what the method makes of the answer: self._onORoff(resp) or float(resp)
Convert(conv, resp) ==
    IF conv = "_onORoff" THEN ConvOnOff(resp) ELSE ConvFloat(resp)

\* a method that formats its query with the channel text c, the result of
\* _chStr(channel) or _chanStr(channel), sends it and converts the answer;
\* with instFirst the method evaluates self._inst.query before it formats
\* the channel
RgChannelQuery(op, channel, c, text, conv, instFirst) ==
    LET r == RgEnter(op, channel, 0)
    IN  IF instFirst /\ r.session = "unopened" THEN rg' = RgRaise(r, "AttributeError")
        ELSE IF ~c.ok THEN rg' = RgRaise(r, c.err)
        ELSE \E r2 \in RgQuery(r, Cmd(text, c.val, 0)) :
                LET x == Convert(conv, r2.resp)
                IN  rg' = IF RgRaised(r2) THEN r2
                          ELSE IF x.ok THEN RgReturn(r2, x.val)
                          ELSE RgRaise(r2, x.err)

\* isOutputOn(channel)
isOutputOn ==
    /\ RgIdle
    /\ \E channel \in ChannelArgs :
         RgChannelQuery("isOutputOn", channel, chStr(channel), ":OUTPut:STATe? {}", "_onORoff", FALSE)
    /\ UNCHANGED <<testVars, km, fs>>

\* outputOn(channel)
outputOn ==
    /\ RgIdle
    /\ \E channel \in ChannelArgs :
         RgChannelWrite("outputOn", channel, 0, chStr(channel), ":OUTPut:STATe {},ON")
    /\ UNCHANGED <<testVars, km, fs>>

\* outputOff(channel)
outputOff ==
    /\ RgIdle
    /\ \E channel \in ChannelArgs :
         RgChannelWrite("outputOff", channel, 0, chStr(channel), ":OUTPut:STATe {},OFF")
    /\ UNCHANGED <<testVars, km, fs>>

\* setVoltage(channel, voltage)
setVoltage ==
    /\ RgIdle
    /\ \E channel \in ChannelArgs, voltage \in RgValues :
         RgChannelWrite("setVoltage", channel, voltage, chanStr(channel), ":SOURce{}:VOLTage {}")
    /\ UNCHANGED <<testVars, km, fs>>

\* setCurrent(channel, current)
setCurrent ==
    /\ RgIdle
    /\ \E channel \in ChannelArgs, current \in RgValues :
         RgChannelWrite("setCurrent", channel, current, chanStr(channel), ":SOURce{}:CURRent {}")
    /\ UNCHANGED <<testVars, km, fs>>

\* queryVoltage(channel)
queryVoltage ==
    /\ RgIdle
    /\ \E channel \in ChannelArgs :
         RgChannelQuery("queryVoltage", channel, chanStr(channel), ":SOURce{}:VOLTage?", "float", FALSE)
    /\ UNCHANGED <<testVars, km, fs>>

\* queryCurrent(channel)
queryCurrent ==
    /\ RgIdle
    /\ \E channel \in ChannelArgs :
         RgChannelQuery("queryCurrent", channel, chanStr(channel), ":SOURce{}:CURRent?", "float", FALSE)
    /\ UNCHANGED <<testVars, km, fs>>

\* measureVoltage(channel)
measureVoltage ==
    /\ RgIdle
    /\ \E channel \in ChannelArgs :
         RgChannelQuery("measureVoltage", channel, chStr(channel), ":MEAS:VOLT? {}", "float", TRUE)
    /\ UNCHANGED <<testVars, km, fs>>

\* measureCurrent(channel)
measureCurrent ==
    /\ RgIdle
    /\ \E channel \in ChannelArgs :
         RgChannelQuery("measureCurrent", channel, chStr(channel), ":MEAS:CURRent? {}", "float", TRUE)
    /\ UNCHANGED <<testVars, km, fs>>

NextRigol ==
    \/ RgOpen \/ RgClose \/ RgChStr \/ RgChanStr \/ RgWaitBegin \/ RgWaitPoll
    \/ RgIdn \/ RgSetMode
    \/ isOutputOn \/ outputOn \/ outputOff \/ setVoltage \/ setCurrent
    \/ queryVoltage \/ queryCurrent \/ measureVoltage \/ measureCurrent

(* ------------- src/dcps/Keithley6500.py: class Keithley6500 ------------ *)
\* self._functions
functions ==
    [VoltageDC |-> "VOLT", VoltageAC |-> "VOLT:AC", CurrentDC |-> "CURR",
     CurrentAC |-> "CURR:AC", Resistance2W |-> "RES", Resistance4W |-> "FRES",
     Diode |-> "DIODe", Capacitance |-> "CAP", Temperature |-> "TEMP",
     Continuity |-> "CONT", Frequency |-> "FREQ", Period |-> "PERiod",
     VoltageRatio |-> "VOLT:RATio"]

\* Python's None, as a function name and as a channel
NoneStr == "None"
NoneChan == 0 - 1

\* self._functions.get(function): None for a name that is not a key
functionsGet(function) ==
    IF function \in DOMAIN functions THEN functions[function] ELSE NoneStr

\* allowedFunctions of setAutoZero
allowedFunctions == {"VOLT", "CURR", "RES", "FRES", "DIODe", "TEMP", "VOLT:RATio"}

\* the function arguments the methods are called with: two functions that
\* support auto-zero, one that does not, a name that is no key, and None
KmFunctionArgs == {"VoltageDC", "CurrentDC", "Capacitance", "Bogus", NoneStr}

\* the channel arguments the methods are called with; None when omitted
KmChannelArgs == {NoneChan, 2}

\* the methods that do nothing on this device
KmNoOps == {"setRemote", "setRemoteLock", "beeperOn", "beeperOff", "outputOn",
            "outputOff", "outputOnAll", "outputOffAll", "inputOn", "inputOff",
            "inputOnAll", "inputOffAll"}

\* a command of the multimeter: the format text, the channel and the function
\* command string put into it, and the value as text ("-" where it has none)
KmCmd(text, channel, fn, v) == [text |-> text, ch |-> channel, fn |-> fn, v |-> v]

\* the object after __init__: no function selected; channel as set by the
\* base class. selected is the function of the last setMeasureFunction call
\* that returned (None before the first)
KmInit ==
    [session |-> "unopened", functionStr |-> NoneStr, channel |-> 1,
     selected |-> NoneStr,
     op |-> "none", function |-> NoneStr, chan |-> NoneChan, used |-> NoneStr,
     sent |-> <<>>, resp |-> <<>>, outcome |-> "none", err |-> "none",
     ret |-> NoRet]

\* the call op(function, channel) begins: nothing sent or received yet
KmEnter(op, function, channel) ==
    [km EXCEPT !.op = op, !.function = function, !.chan = channel,
               !.used = NoneStr, !.sent = <<>>, !.resp = <<>>,
               !.outcome = "none", !.err = "none", !.ret = NoRet]

KmSent(r, c) == IF Len(r.sent) < MaxSent THEN Append(r.sent, c) ELSE r.sent

KmRaise(r, e) == [r EXCEPT !.outcome = "raised", !.err = e]

KmReturn(r, v) == [r EXCEPT !.outcome = "returned", !.ret = v]

KmRaised(r) == r.outcome = "raised"

\* the texts the multimeter can answer a query with
KmResponses ==
    { <<>>, <<"1", "\n">>, <<"1", "2", ".", "5", "0">>, <<"-", "0", ".", "5", "\n">>,
      <<"1", ".", "2", ".">>, <<"O", "N">> }

\* the ways self._instWrite(c) can end in call r
KmWrite(r, c) ==
    IF r.session = "unopened" THEN {KmRaise(r, "AttributeError")}
    ELSE IF r.session = "closed" THEN {KmRaise(r, "InvalidSession")}
    ELSE {[r EXCEPT !.sent = KmSent(r, c)],
          KmRaise([r EXCEPT !.sent = KmSent(r, c)], "TransportError")}

\* the ways self._instQuery(c) can end in call r; resp is the answer
KmQuery(r, c) ==
    IF r.session = "unopened" THEN {KmRaise(r, "AttributeError")}
    ELSE IF r.session = "closed" THEN {KmRaise(r, "InvalidSession")}
    ELSE {[r EXCEPT !.sent = KmSent(r, c), !.resp = a] : a \in KmResponses}
         \cup {KmRaise([r EXCEPT !.sent = KmSent(r, c)], "TransportError")}

\* if channel is not None: self.channel = channel
KmSetChannel(r, channel) ==
    IF channel # NoneChan THEN [r EXCEPT !.channel = channel] ELSE r

\* open()
KmOpen ==
    /\ \/ km' = KmReturn([KmEnter("open", NoneStr, NoneChan) EXCEPT !.session = "open"], NoRet)
       \/ km' = KmRaise(KmEnter("open", NoneStr, NoneChan), "TransportError")
    /\ UNCHANGED <<testVars, rg, fs>>

\* close()
KmClose ==
    /\ LET r == KmEnter("close", NoneStr, NoneChan)
       IN  IF r.session = "unopened" THEN km' = KmRaise(r, "AttributeError")
           ELSE km' = KmReturn([r EXCEPT !.session = "closed"], NoRet)
    /\ UNCHANGED <<testVars, rg, fs>>

\* setLocal()
KmSetLocal ==
    /\ \E r \in KmWrite(KmEnter("setLocal", NoneStr, NoneChan),
                        KmCmd("TRIG:CONT REST", NoneChan, NoneStr, "-")) :
         IF KmRaised(r) THEN km' = r
         ELSE \E r2 \in KmQuery(r, KmCmd("-LOGOUT", NoneChan, NoneStr, "-")) :
                 km' = IF KmRaised(r2) THEN r2 ELSE KmReturn(r2, NoRet)
    /\ UNCHANGED <<testVars, rg, fs>>

\* a variant of the do-nothing methods that raises as an unsupported command
KmNoOpUnsupported ==
    /\ \E op \in KmNoOps, channel \in KmChannelArgs :
         km' = KmRaise(KmEnter(op, NoneStr, channel), "NotImplementedError")
    /\ UNCHANGED <<testVars, rg, fs>>

\* setRemote() .. inputOffAll(): pass
KmNoOp ==
    /\ \E op \in KmNoOps, channel \in KmChannelArgs :
         km' = KmReturn(KmEnter(op, NoneStr, channel), NoRet)
    /\ UNCHANGED <<testVars, rg, fs>>

\* isOutputOn(channel): return False
KmIsOutputOn ==
    /\ \E channel \in KmChannelArgs :
         km' = KmReturn(KmEnter("isOutputOn", NoneStr, channel), BoolRet(FALSE))
    /\ UNCHANGED <<testVars, rg, fs>>

\* isInputOn(channel): return True
KmIsInputOn ==
    /\ \E channel \in KmChannelArgs :
         km' = KmReturn(KmEnter("isInputOn", NoneStr, channel), BoolRet(TRUE))
    /\ UNCHANGED <<testVars, rg, fs>>

\* a variant of setMeasureFunction that saves the function before looking it up
setMeasureFunctionSavesFirst(r, function, channel) ==
    LET functionCmdStr == functionsGet(function)
        r1 == [r EXCEPT !.functionStr = function]
        r2 == KmSetChannel(r1, channel)
    IN  IF functionCmdStr = NoneStr THEN {KmRaise(r1, "ValueError")}
        ELSE {IF KmRaised(w) THEN w ELSE [w EXCEPT !.selected = function] :
                w \in KmWrite(r2, KmCmd("SENS{}:FUNC:ON \"{}\"", r2.channel,
                                        functionCmdStr, "-"))}

\* the ways setMeasureFunction(function, channel) can end inside call r: an
\* unknown function raises before anything is saved; a known one is saved,
\* then the channel, then the command is written
setMeasureFunction(r, function, channel) ==
    LET functionCmdStr == functionsGet(function)
        r1 == KmSetChannel([r EXCEPT !.functionStr = function], channel)
    IN  IF functionCmdStr = NoneStr THEN {KmRaise(r, "ValueError")}
        ELSE {IF KmRaised(w) THEN w ELSE [w EXCEPT !.selected = function] :
                w \in KmWrite(r1, KmCmd("SENS{}:FUNC:ON \"{}\"", r1.channel,
                                        functionCmdStr, "-"))}

\* a direct call of setMeasureFunction(function, channel)
KmSetMeasureFunction ==
    /\ \E function \in KmFunctionArgs, channel \in KmChannelArgs :
         \E w \in setMeasureFunction(KmEnter("setMeasureFunction", function, channel),
                                     function, channel) :
            km' = IF KmRaised(w) THEN w ELSE KmReturn(w, NoRet)
    /\ UNCHANGED <<testVars, rg, fs>>

\* a variant of functionStr that falls back to VoltageDC when no function has
\* been saved
functionStrDefaults(r, function) ==
    IF function # NoneStr THEN function
    ELSE IF r.functionStr = NoneStr THEN "VoltageDC" ELSE r.functionStr

\* functionStr of the dependent methods: the argument, or self._functionStr
\* when the argument is None
functionStr(r, function) ==
    IF function = NoneStr THEN r.functionStr ELSE function

\* self._bool2onORoff(on)
bool2onORoff(on) == IF on THEN "ON" ELSE "OFF"

\* the common part of the dependent methods in call r: look the function up,
\* refuse an unknown one, and with checked refuse one outside allowedFunctions;
\* then set the channel and write or query the command made of text and v
KmDependent(r, function, channel, checked, text, v, isQuery) ==
    LET used == functionStr(r, function)
        functionCmdStr == functionsGet(used)
        r0 == [r EXCEPT !.used = used]
        r1 == KmSetChannel(r0, channel)
        c  == KmCmd(text, r1.channel, functionCmdStr, v)
    IN  IF functionCmdStr = NoneStr THEN {KmRaise(r0, "ValueError")}
        ELSE IF checked /\ functionCmdStr \notin allowedFunctions
             THEN {KmRaise(r0, "ValueError")}
        ELSE IF isQuery THEN KmQuery(r1, c) ELSE KmWrite(r1, c)

\* setAutoZero(on, function, channel)
KmSetAutoZero ==
    /\ \E on \in BOOLEAN, function \in KmFunctionArgs, channel \in KmChannelArgs :
         \E w \in KmDependent(KmEnter("setAutoZero", function, channel), function,
                              channel, TRUE, "SENS{}:{}:AZERo:STATe {}",
                              bool2onORoff(on), FALSE) :
            km' = IF KmRaised(w) THEN w ELSE KmReturn(w, NoRet)
    /\ UNCHANGED <<testVars, rg, fs>>

\* the offset arguments: None (acquire) and a number
KmOffsets == {NoneStr, "0.0034567"}

\* setRelativeOffset(offset, function, channel)
KmSetRelativeOffset ==
    /\ \E offset \in KmOffsets, function \in KmFunctionArgs, channel \in KmChannelArgs :
         \E w \in KmDependent(KmEnter("setRelativeOffset", function, channel),
                              function, channel, FALSE,
                              IF offset = NoneStr THEN "SENS{}:{}:REL:ACQuire"
                                                  ELSE "SENS{}:{}:REL {}",
                              IF offset = NoneStr THEN "-" ELSE offset, FALSE) :
            km' = IF KmRaised(w) THEN w ELSE KmReturn(w, NoRet)
    /\ UNCHANGED <<testVars, rg, fs>>

\* queryRelativeOffset(function, channel)
KmQueryRelativeOffset ==
    /\ \E function \in KmFunctionArgs, channel \in KmChannelArgs :
         \E w \in KmDependent(KmEnter("queryRelativeOffset", function, channel),
                              function, channel, FALSE, "SENS{}:{}:REL?", "-", TRUE) :
            LET x == float(w.resp)
            IN  km' = IF KmRaised(w) THEN w
                      ELSE IF x.ok THEN KmReturn(w, FloatRet(x.val))
                      ELSE KmRaise(w, x.err)
    /\ UNCHANGED <<testVars, rg, fs>>

\* setRelativeOffsetState(on, function, channel)
KmSetRelativeOffsetState ==
    /\ \E on \in BOOLEAN, function \in KmFunctionArgs, channel \in KmChannelArgs :
         \E w \in KmDependent(KmEnter("setRelativeOffsetState", function, channel),
                              function, channel, FALSE, "SENS{}:{}:REL:STATe {}",
                              bool2onORoff(on), FALSE) :
            km' = IF KmRaised(w) THEN w ELSE KmReturn(w, NoRet)
    /\ UNCHANGED <<testVars, rg, fs>>

\* a variant of KmMeasure that puts the saved function back after the reading
KmMeasureKeepsFunction(op, function) ==
    /\ \E channel \in KmChannelArgs :
         \E w \in setMeasureFunction(KmEnter(op, NoneStr, channel), function, channel) :
            IF KmRaised(w) THEN km' = [w EXCEPT !.functionStr = km.functionStr]
            ELSE \E q \in KmQuery(w, KmCmd("READ?", NoneChan, NoneStr, "-")) :
                    LET x == float(q.resp)
                        k == [q EXCEPT !.functionStr = km.functionStr]
                    IN  km' = IF KmRaised(q) THEN k
                              ELSE IF x.ok THEN KmReturn(k, FloatRet(x.val))
                              ELSE KmRaise(k, x.err)
    /\ UNCHANGED <<testVars, rg, fs>>

\* measureResistance, measureVoltage, measureCurrent: select the function,
\* then val = self._instQuery('READ?'); return float(val)
KmMeasure(op, function) ==
    /\ \E channel \in KmChannelArgs :
         \E w \in setMeasureFunction(KmEnter(op, NoneStr, channel), function, channel) :
            IF KmRaised(w) THEN km' = w
            ELSE \E q \in KmQuery(w, KmCmd("READ?", NoneChan, NoneStr, "-")) :
                    LET x == float(q.resp)
                    IN  km' = IF KmRaised(q) THEN q
                              ELSE IF x.ok THEN KmReturn(q, FloatRet(x.val))
                              ELSE KmRaise(q, x.err)
    /\ UNCHANGED <<testVars, rg, fs>>

KmMeasureResistance == KmMeasure("measureResistance", "Resistance2W")

KmMeasureVoltage == KmMeasure("measureVoltage", "VoltageDC")

KmMeasureCurrent == KmMeasure("measureCurrent", "CurrentDC")

NextDmm ==
    \/ KmOpen \/ KmClose \/ KmSetLocal \/ KmNoOp \/ KmIsOutputOn \/ KmIsInputOn
    \/ KmSetMeasureFunction \/ KmSetAutoZero \/ KmSetRelativeOffset
    \/ KmQueryRelativeOffset \/ KmSetRelativeOffsetState
    \/ KmMeasureResistance \/ KmMeasureVoltage \/ KmMeasureCurrent

(* ------ src/dcps/power_tests.py: handleFilename and dataSaveNPZ -------- *)
\* a file name is a sequence of pieces: names, '/', '-', '.', numbers as text

\* the names handleFilename is called with
FnameArgs ==
    { <<"DC_Test">>, <<"DC_Test", ".", "npz">>, <<"out", "/", "DC_Test">>,
      <<"DC_Test", "/">> }

\* datetime.now().strftime(...): one text per second of the clock
Strftime(t) == <<"s1", "s2", "s3", "s4", "s5">>[t]

\* "{}".format(num)
FormatNum(num) == <<"1", "2", "3", "4", "5", "6", "7", "8", "9">>[num]

\* suffix after num turns of the loop
Suffix(num) == IF num = 0 THEN <<>> ELSE <<"-", FormatNum(num)>>

\* Python's s.endswith(t)
EndsWith(str, t) ==
    Len(str) >= Len(t) /\ SubSeq(str, Len(str) - Len(t) + 1, Len(str)) = t

\* fname.split('/')[-1]
LastComponent(str) ==
    LET slashes == {i \in 1..Len(str) : str[i] = "/"}
        last    == IF slashes = {} THEN 0
                   ELSE CHOOSE i \in slashes : \A j \in slashes : j <= i
    IN  SubSeq(str, last + 1, Len(str))

\* path.isfile(p)
isfile(p) == p \in fs.files

\* a variant of the search that tests the name without suffix only
uniqueSuffixOnce(fn, ext, num) ==
    IF isfile(fn \o Suffix(num) \o ext) THEN Suffix(num + 1) ELSE Suffix(num)

\* the while loop of handleFilename, entered with num
RECURSIVE uniqueSuffix(_, _, _)
uniqueSuffix(fn, ext, num) ==
    IF isfile(fn \o Suffix(num) \o ext)
    THEN uniqueSuffix(fn, ext, num + 1)
    ELSE Suffix(num)

handleFilename(fname, ext, unique, timestamp) ==
    LET dotExt == <<".", ext>>
        f1 == IF EndsWith(fname, dotExt)
              THEN SubSeq(fname, 1, Len(fname) - Len(dotExt)) ELSE fname
        f2 == IF EndsWith(f1, <<"/">>) THEN SubSeq(f1, 1, Len(f1) - 1) ELSE f1
        f3 == LastComponent(f2)
        pn == <<"HOME", "/", "Downloads">>
        fn0 == pn \o <<"/">> \o f3
        fn1 == IF timestamp THEN fn0 \o <<"-", Strftime(fs.now)>> ELSE fn0
        suffix == IF unique THEN uniqueSuffix(fn1, dotExt, 0) ELSE <<>>
    IN  fn1 \o suffix \o dotExt

\* no call made yet, in an empty directory
FsInit ==
    [files |-> {}, now |-> 1, pc |-> "idle", fname |-> <<>>, unique |-> FALSE,
     timestamp |-> FALSE, fn |-> <<>>, overwrote |-> FALSE, saves |-> 0]

\* the directories the program may find: files of earlier runs of the first
\* second, without suffix or with a suffix up to MaxSuffix
FsFound ==
    SUBSET { <<"HOME", "/", "Downloads", "/", "DC_Test", "-", Strftime(1)>>
               \o Suffix(n) \o <<".", "npz">> : n \in 0..MaxSuffix }

\* a second passes
FsTick ==
    /\ fs.pc = "idle"
    /\ fs.now < MaxClock
    /\ fs' = [fs EXCEPT !.now = fs.now + 1]
    /\ UNCHANGED <<testVars, rg, km>>

\* fn = handleFilename(fnbase, 'npz'), also with the other values of its flags
FsHandleFilename ==
    /\ fs.pc = "idle"
    /\ fs.saves < MaxSaves
    /\ \E fname \in FnameArgs, unique \in BOOLEAN, timestamp \in BOOLEAN :
         fs' = [fs EXCEPT !.pc = "named", !.fname = fname, !.unique = unique,
                          !.timestamp = timestamp, !.overwrote = FALSE,
                          !.fn = handleFilename(fname, "npz", unique, timestamp)]
    /\ UNCHANGED <<testVars, rg, km>>

\* dataSaveNPZ(fn, data, header, meta): np.savez writes the file, or fails
FsSave ==
    /\ fs.pc = "named"
    /\ \/ fs' = [fs EXCEPT !.pc = "idle", !.files = fs.files \cup {fs.fn},
                           !.overwrote = isfile(fs.fn), !.saves = fs.saves + 1]
       \/ fs' = [fs EXCEPT !.pc = "idle"]
    /\ UNCHANGED <<testVars, rg, km>>

NextFiles == FsTick \/ FsHandleFilename \/ FsSave

(* --------------------------- initial state ----------------------------- *)
LocNames == {"startV", "startI", "baseV", "baseI",
             "psVoltage", "psCurrent", "outVoltage", "outCurrent", "inputOn"}

LocInit == [x \in LocNames |-> 0]

\* the instruments are found as the previous user left them
DevInit ==
    [psOut : BOOLEAN, psVolt : {0}, ptbPower : {FALSE},
     eloadIn : BOOLEAN, eloadCurr : {0},
     panel : {[i \in Instruments |-> "local"]}]

\* the smallest sweep: one trial, one input voltage, one load off and one on
SmallParam ==
    [upper |-> 20, max_iin |-> 510, ovp |-> 161, ocp |-> 750,
     vins |-> def_vins(1), loads |-> <<0, 2>>]

\* a run of one circuit with any sweep within the bounds, or a run of any
\* circuit list with the smallest sweep
Init ==
    /\ \/ /\ args \in [trials : 1..MaxTrials,
                       circuits : {c \in CircuitLists : Len(c) = 1}]
          /\ param \in DCTestParamSet
       \/ /\ args \in [trials : {1}, circuits : CircuitLists]
          /\ param = SmallParam
    /\ pc = "main_pre"
    /\ ip = 1
    /\ circIdx = 0
    /\ opened = [i \in Instruments |-> "unopened"]
    /\ dev \in DevInit
    /\ io = [n |-> 0, inst |-> "none", cmd |-> "none", arg |-> 0]
    /\ trial = -1
    /\ vinIdx = 0
    /\ loadIdx = 0
    /\ loc = LocInit
    /\ data = <<>>
    /\ trialsDone = 0
    /\ intr = NoIntr
    /\ saved = <<>>
    /\ exc = NoExc
    /\ rg = RgInit
    /\ km = KmInit
    /\ fs = FsInit

(* ------------------------ issuing an instruction ----------------------- *)
\* what the instruments are left commanded to by an instruction that succeeded
Effect(d, ins) ==
    LET panelOf(i, m) == [d.panel EXCEPT ![i] = m]
    IN
    CASE ins.inst = "PS" /\ ins.cmd = "outputOn"      -> [d EXCEPT !.psOut = TRUE]
      [] ins.inst = "PS" /\ ins.cmd = "outputOff"     -> [d EXCEPT !.psOut = FALSE]
      [] ins.inst = "PS" /\ ins.cmd = "setVoltage"    -> [d EXCEPT !.psVolt = ins.arg]
      [] ins.inst = "ELOAD" /\ ins.cmd = "inputOn"    -> [d EXCEPT !.eloadIn = TRUE]
      [] ins.inst = "ELOAD" /\ ins.cmd = "inputOff"   -> [d EXCEPT !.eloadIn = FALSE]
      [] ins.inst = "ELOAD" /\ ins.cmd = "setCurrent" -> [d EXCEPT !.eloadCurr = ins.arg]
      [] ins.inst = "PTB" /\ ins.cmd = "powerEnable"  -> [d EXCEPT !.ptbPower = (ins.arg = 1)]
      [] ins.inst \in {"PS", "ELOAD"} /\ ins.cmd = "setRemoteLock"
                                                      -> [d EXCEPT !.panel = panelOf(ins.inst, "locked")]
      [] ins.inst \in {"PS", "ELOAD"} /\ ins.cmd = "setLocal"
                                                      -> [d EXCEPT !.panel = panelOf(ins.inst, "local")]
      [] ins.inst = "DMM" /\ ins.cmd = "-LOGOUT"      -> [d EXCEPT !.panel = panelOf("DMM", "local")]
      \* any other command puts the multimeter in remote mode
      [] ins.inst = "DMM" /\ ins.kind \in {"w", "q"}  -> [d EXCEPT !.panel = panelOf("DMM", "remote")]
      [] OTHER                                        -> d

\* the answers a query can get; the load reports its input state as it is
Answers(ins) ==
    IF ins.cmd = "isInputOn" THEN {Numeric(IF dev.eloadIn THEN 1 ELSE 0)}
    ELSE IF ins.cmd = "-LOGOUT" THEN {Numeric(0)}
    ELSE {Numeric(v) : v \in Readings(ins.inst, ins.cmd)} \cup {NonNumeric}

\* the errors an instruction can raise besides an unparsable answer
Failures(ins) ==
    IF ins.kind = "n" THEN {} ELSE {"TransportError"}

Issued(ins) ==
    IF ins.kind \in {"w", "q"}
    THEN [n |-> 1 - io.n, inst |-> ins.inst, cmd |-> ins.cmd, arg |-> ins.arg]
    ELSE io

\* an exception leaves DCTest and the driver: nothing catches it
Raise(kind) ==
    /\ exc' = [kind |-> kind, at |-> pc]
    /\ pc' = "crashed"
    /\ UNCHANGED <<ip, opened, dev, loc>>

\* a variant of an instruction that takes an unparsable answer for zero
IssueSubstitutes(ins, toPc, toIp) ==
    \/ /\ ins.kind # "q"
       /\ dev' = Effect(dev, ins)
       /\ io' = Issued(ins)
       /\ opened' = CASE ins.kind = "open"  -> [opened EXCEPT ![ins.inst] = "open"]
                      [] ins.kind = "close" -> [opened EXCEPT ![ins.inst] = "closed"]
                      [] OTHER              -> opened
       /\ pc' = toPc /\ ip' = toIp
       /\ UNCHANGED <<loc, exc>>
    \/ /\ ins.kind = "q"
       /\ \E v \in Answers(ins) :
            /\ io' = Issued(ins)
            /\ dev' = Effect(dev, ins)
            /\ loc' = IF ins.dst \in LocNames
                      THEN [loc EXCEPT ![ins.dst] = v.val] ELSE loc
            /\ pc' = toPc /\ ip' = toIp
            /\ UNCHANGED <<opened, exc>>
    \/ /\ \E k \in Failures(ins) : Raise(k)
       /\ io' = Issued(ins)

\* instruction ins at the current pc; on success control goes to <<toPc, toIp>>
Issue(ins, toPc, toIp) ==
    \/ /\ ins.kind # "q"
       /\ dev' = Effect(dev, ins)
       /\ io' = Issued(ins)
       /\ opened' = CASE ins.kind = "open"  -> [opened EXCEPT ![ins.inst] = "open"]
                      [] ins.kind = "close" -> [opened EXCEPT ![ins.inst] = "closed"]
                      [] OTHER              -> opened
       /\ pc' = toPc /\ ip' = toIp
       /\ UNCHANGED <<loc, exc>>
    \/ /\ ins.kind = "q"
       /\ \E v \in Answers(ins) :
            /\ io' = Issued(ins)
            /\ IF ~v.num
               THEN Raise("ValueError")
               ELSE /\ dev' = Effect(dev, ins)
                    /\ loc' = IF ins.dst \in LocNames
                              THEN [loc EXCEPT ![ins.dst] = v.val] ELSE loc
                    /\ pc' = toPc /\ ip' = toIp
                    /\ UNCHANGED <<opened, exc>>
    \/ /\ \E k \in Failures(ins) : Raise(k)
       /\ io' = Issued(ins)

\* one instruction of a straight-line block; after its last one, go to toPc
BlockStep(block, toPc) ==
    IF ip < Len(block) THEN Issue(block[ip], pc, ip + 1)
                       ELSE Issue(block[ip], toPc, 1)

(* ----------------------------- the driver ------------------------------ *)
circuit_list == args.circuits

circ == circuit_list[circIdx]

\* ps.open() .. eload.open()
MainPre ==
    /\ pc = "main_pre"
    /\ BlockStep(MainPreBlock, "main_loop")
    /\ UNCHANGED <<libVars, args, param, circIdx, sweepVars, saved>>

\* `for circ in circuit_list`, the lookup DCTestParams[circ] and the call
MainNextCircuit ==
    /\ pc = "main_loop"
    /\ circIdx < Len(circuit_list)
    /\ circIdx' = circIdx + 1
    /\ IF circuit_list[circIdx + 1] \in DCTestParamKeys
       THEN /\ pc' = "dc_init" /\ ip' = 1
            /\ exc' = exc
       ELSE /\ pc' = "crashed" /\ ip' = ip
            /\ exc' = [kind |-> "KeyError", at |-> pc]
    /\ loc' = LocInit
    /\ data' = <<>>
    /\ trialsDone' = 0
    /\ trial' = -1 /\ vinIdx' = 0 /\ loadIdx' = 0
    /\ intr' = NoIntr
    /\ UNCHANGED <<libVars, args, param, opened, dev, io, saved>>

\* the circuit loop is exhausted
MainLoopEnd ==
    /\ pc = "main_loop"
    /\ circIdx = Len(circuit_list)
    /\ pc' = "main_close" /\ ip' = 1
    /\ UNCHANGED <<libVars, args, param, circIdx, opened, dev, io, sweepVars, loc, saved, exc>>

\* eload.close(); dmm.close(); ps.close()
MainClose ==
    /\ pc = "main_close"
    /\ BlockStep(MainCloseBlock, "done")
    /\ UNCHANGED <<libVars, args, param, circIdx, sweepVars, saved>>

(* ------------------------------- DCTest -------------------------------- *)
\* PS.outputOff() .. baseValues = measurePowerValues(PS)
DCInit ==
    /\ pc = "dc_init"
    /\ BlockStep(DCInitBlock(param), "dc_vars")
    /\ UNCHANGED <<libVars, args, param, circIdx, sweepVars, saved>>

\* data = []; trialsDone = 0; the try block is entered
DCVars ==
    /\ pc = "dc_vars"
    /\ data' = <<>>
    /\ trialsDone' = 0
    /\ trial' = -1
    /\ pc' = "for_trial"
    /\ UNCHANGED <<libVars, args, param, ip, circIdx, opened, dev, io, vinIdx, loadIdx,
                   loc, intr, saved, exc>>

\* a variant of the range that runs one trial more
MoreTrialsInclusive == trial + 1 <= args.trials

\* range(0, trials) has a value after `trial`
MoreTrials == trial + 1 < args.trials

\* for trial in range(0, trials)
ForTrial ==
    /\ pc = "for_trial"
    /\ IF MoreTrials
       THEN /\ trial' = trial + 1
            /\ vinIdx' = 0
            /\ pc' = "for_vin"
       ELSE /\ pc' = "eload_off"
            /\ UNCHANGED <<trial, vinIdx>>
    /\ UNCHANGED <<libVars, args, param, ip, circIdx, opened, dev, io, loadIdx, loc,
                   data, trialsDone, intr, saved, exc>>

\* for vin in param.vins
ForVin ==
    /\ pc = "for_vin"
    /\ IF vinIdx < Len(param.vins)
       THEN /\ vinIdx' = vinIdx + 1
            /\ loadIdx' = 0
            /\ pc' = "set_vin" /\ ip' = 1
       ELSE /\ pc' = "trial_done"
            /\ UNCHANGED <<vinIdx, loadIdx, ip>>
    /\ UNCHANGED <<libVars, args, param, circIdx, opened, dev, io, trial, loc, data,
                   trialsDone, intr, saved, exc>>

vin == param.vins[vinIdx]

load == param.loads[loadIdx]

\* setPowerValues(ps, vin, param.max_iin); sleep(param.vin_wait)
SetVin ==
    /\ pc = "set_vin"
    /\ BlockStep(SetVinBlock(param, vin), "for_load")
    /\ UNCHANGED <<libVars, args, param, circIdx, sweepVars, saved>>

\* for load in param.loads, and the test `load == 0`
ForLoad ==
    /\ pc = "for_load"
    /\ IF loadIdx < Len(param.loads)
       THEN /\ loadIdx' = loadIdx + 1
            /\ pc' = IF param.loads[loadIdx + 1] = 0 THEN "load_zero" ELSE "load_query"
       ELSE /\ pc' = "for_vin"
            /\ UNCHANGED loadIdx
    /\ UNCHANGED <<libVars, args, param, ip, circIdx, opened, dev, io, trial, vinIdx,
                   loc, data, trialsDone, intr, saved, exc>>

\* a variant of the zero-load branch that programs a current of zero and
\* leaves the input as it is
LoadZeroSetsCurrent ==
    /\ pc = "load_zero"
    /\ Issue(W("ELOAD", "setCurrent", 0), "measure", 1)
    /\ UNCHANGED <<libVars, args, param, circIdx, sweepVars, saved>>

\* ELOAD.inputOff(); sleep(param.load_wait)
LoadZero ==
    /\ pc = "load_zero"
    /\ Issue(W("ELOAD", "inputOff", 0), "measure", 1)
    /\ UNCHANGED <<libVars, args, param, circIdx, sweepVars, saved>>

\* if (not ELOAD.isInputOn())
LoadQuery ==
    /\ pc = "load_query"
    /\ Issue(Q("ELOAD", "isInputOn", "inputOn"),
             IF dev.eloadIn THEN "load_set" ELSE "load_enable", 1)
    /\ UNCHANGED <<libVars, args, param, circIdx, sweepVars, saved>>

\* a variant of the branch that enables the input before programming the load
LoadEnableInputFirst ==
    /\ pc = "load_enable"
    /\ BlockStep(<< W("ELOAD", "inputOn", 0), W("ELOAD", "setCurrent", load) >>,
                 "load_set")
    /\ UNCHANGED <<libVars, args, param, circIdx, sweepVars, saved>>

\* ELOAD.setCurrent(load, wait=0.2); ELOAD.inputOn()
LoadEnable ==
    /\ pc = "load_enable"
    /\ BlockStep(<< W("ELOAD", "setCurrent", load), W("ELOAD", "inputOn", 0) >>,
                 "load_set")
    /\ UNCHANGED <<libVars, args, param, circIdx, sweepVars, saved>>

\* ELOAD.setCurrent(load, wait=param.load_wait)
LoadSet ==
    /\ pc = "load_set"
    /\ Issue(W("ELOAD", "setCurrent", load), "measure", 1)
    /\ UNCHANGED <<libVars, args, param, circIdx, sweepVars, saved>>

\* measurePowerValues(PS); DMM.measureVoltage(); ELOAD.measureCurrent()
Measure ==
    /\ pc = "measure"
    /\ BlockStep(MeasureBlock, "append")
    /\ UNCHANGED <<libVars, args, param, circIdx, sweepVars, saved>>

\* a variant of the efficiency that divides the input power by the output power
EfficiencyInverted(outPower, inPower) == <<inPower * 100, outPower>>

\* (outPower / inPower) * 100 as the exact fraction <<numerator, denominator>>
Efficiency(outPower, inPower) == <<outPower * 100, inPower>>

\* a variant of the row that subtracts the current of the second baseline
SampleRowSecondBaseline ==
    LET inVoltage  == loc.psVoltage
        inCurrent  == loc.psCurrent - loc.baseI
        outVoltage == loc.outVoltage
        outCurrent == loc.outCurrent
        outPower   == outVoltage * outCurrent
        inPower    == inVoltage * inCurrent
    IN  << trial + 1, vin, load, inVoltage, inCurrent, inPower,
           outVoltage, outCurrent, outPower, Efficiency(outPower, inPower) >>

\* a variant of the row that records the trial as range() counts it, from 0
SampleRowZeroBased ==
    LET inVoltage  == loc.psVoltage
        inCurrent  == loc.psCurrent - loc.startI
        outVoltage == loc.outVoltage
        outCurrent == loc.outCurrent
        outPower   == outVoltage * outCurrent
        inPower    == inVoltage * inCurrent
    IN  << trial, vin, load, inVoltage, inCurrent, inPower,
           outVoltage, outCurrent, outPower, Efficiency(outPower, inPower) >>

\* the row DCTest appends from the values of this iteration
SampleRow ==
    LET inVoltage  == loc.psVoltage
        inCurrent  == loc.psCurrent - loc.startI
        outVoltage == loc.outVoltage
        outCurrent == loc.outCurrent
        outPower   == outVoltage * outCurrent
        inPower    == inVoltage * inCurrent
    IN  << trial + 1, vin, load, inVoltage, inCurrent, inPower,
           outVoltage, outCurrent, outPower, Efficiency(outPower, inPower) >>

\* the computation of the derived values and data.append(...)
AppendSample ==
    /\ pc = "append"
    /\ IF SampleRow[6] = 0
       THEN \* float division by zero
            /\ Raise("ZeroDivisionError")
            /\ UNCHANGED data
       ELSE /\ data' = Append(data, SampleRow)
            /\ pc' = "for_load"
            /\ UNCHANGED <<ip, opened, dev, loc, exc>>
    /\ UNCHANGED <<libVars, args, param, circIdx, io, trial, vinIdx, loadIdx,
                   trialsDone, intr, saved>>

\* a variant of the count that adds two for a completed trial
TrialDoneTwice ==
    /\ pc = "trial_done"
    /\ trialsDone' = trialsDone + 2
    /\ pc' = "for_trial"
    /\ UNCHANGED <<libVars, args, param, ip, circIdx, opened, dev, io, trial, vinIdx,
                   loadIdx, loc, data, intr, saved, exc>>

\* trialsDone += 1
TrialDone ==
    /\ pc = "trial_done"
    /\ trialsDone' = trialsDone + 1
    /\ pc' = "for_trial"
    /\ UNCHANGED <<libVars, args, param, ip, circIdx, opened, dev, io, trial, vinIdx,
                   loadIdx, loc, data, intr, saved, exc>>

\* a variant of TryPcs in which the try block also covers the teardown
TryPcsWithTeardown ==
    {"for_trial", "for_vin", "set_vin", "for_load", "load_zero", "load_query",
     "load_enable", "load_set", "measure", "append", "trial_done",
     "except", "eload_off", "persist", "stop"}

\* the statements inside `try:`
TryPcs == {"for_trial", "for_vin", "set_vin", "for_load", "load_zero",
           "load_query", "load_enable", "load_set", "measure", "append",
           "trial_done"}

\* KeyboardInterrupt is raised at the statement the process is at: caught by
\* `except KeyboardInterrupt` inside the try block, fatal anywhere else
KeyboardInterrupt ==
    /\ pc \notin {"done", "crashed"}
    /\ IF pc \in TryPcs
       THEN /\ pc' = "except"
            /\ intr' = [k |-> Len(data), at |-> pc]
            /\ exc' = exc
       ELSE /\ pc' = "crashed"
            /\ exc' = [kind |-> "KeyboardInterrupt", at |-> pc]
            /\ UNCHANGED intr
    /\ UNCHANGED <<libVars, args, param, ip, circIdx, opened, dev, io, trial, vinIdx,
                   loadIdx, loc, data, trialsDone, saved>>

\* a variant of the except clause that goes on with the load loop
ExceptResumes ==
    /\ pc = "except"
    /\ pc' = "for_load"
    /\ UNCHANGED <<libVars, args, param, ip, circIdx, opened, dev, io, sweepVars,
                   loc, saved, exc>>

\* the except clause: a message is printed
Except ==
    /\ pc = "except"
    /\ pc' = "eload_off"
    /\ UNCHANGED <<libVars, args, param, ip, circIdx, opened, dev, io, sweepVars, loc,
                   saved, exc>>

\* ELOAD.inputOff() after the loops
EloadOff ==
    /\ pc = "eload_off"
    /\ Issue(W("ELOAD", "inputOff", 0), "persist", 1)
    /\ UNCHANGED <<libVars, args, param, circIdx, sweepVars, saved>>

header == <<"Trial", "Set VIN", "Set Load", "VIN (V)", "IIN (A)", "PIN (W)",
            "VOUT (V)", "IOUT (A)", "POUT (W)", "Efficiency (%)">>

\* meta = ['DC Test', circuit, trialsDone]
meta == <<"DC Test", circ, trialsDone>>

\* handleFilename(...); dataSaveNPZ(fn, data, header, meta)
Persist ==
    /\ pc = "persist"
    /\ \/ /\ saved' = Append(saved, [rows |-> data, header |-> header,
                                     meta |-> meta])
          /\ pc' = "stop" /\ ip' = 1
          /\ UNCHANGED <<opened, dev, loc, exc>>
       \/ /\ Raise("OSError")
          /\ UNCHANGED saved
    /\ UNCHANGED <<libVars, args, param, circIdx, io, sweepVars>>

\* a variant of Stop in which a run that took a signal returns past the
\* circuit loop
StopLeavesLoop ==
    /\ pc = "stop"
    /\ BlockStep(StopBlock, IF intr.k >= 0 THEN "main_close" ELSE "main_loop")
    /\ UNCHANGED <<libVars, args, param, circIdx, sweepVars, saved>>

\* instrumentStop(ELOAD) .. instrumentStop(PS), and the return to the driver
Stop ==
    /\ pc = "stop"
    /\ BlockStep(StopBlock, "main_loop")
    /\ UNCHANGED <<libVars, args, param, circIdx, sweepVars, saved>>

\* the steps the process takes by itself
Program ==
    \/ MainPre \/ MainNextCircuit \/ MainLoopEnd \/ MainClose
    \/ DCInit \/ DCVars \/ ForTrial \/ ForVin \/ SetVin \/ ForLoad
    \/ LoadZero \/ LoadQuery \/ LoadEnable \/ LoadSet \/ Measure
    \/ AppendSample \/ TrialDone \/ Except
    \/ EloadOff \/ Persist \/ Stop

Next == Program \/ KeyboardInterrupt

Spec == Init /\ [][Next]_vars

\* runs of one circuit over one input voltage
InitFair ==
    /\ Init
    /\ Len(args.circuits) = 1
    /\ Len(param.vins) = 1

\* the interpreter keeps executing: every wait of the program is a finite
\* sleep or a blocking call that returns or raises
SpecFair == InitFair /\ [][Next]_vars /\ WF_vars(Program)

\* runs of a list of two circuits: one whose sweep can take the signal and
\* one that follows it
InitSeries ==
    /\ Init
    /\ Len(args.circuits) = 2

\* the same interpreter, over a list of circuits
SpecSeries == InitSeries /\ [][Next]_vars /\ WF_vars(Program)

\* a RigolDP832A object called in any order; the test driver does not run
InitRigol ==
    /\ args = [trials |-> 1, circuits |-> <<"1V8-A">>]
    /\ param = SmallParam
    /\ pc = "main_pre"
    /\ ip = 1
    /\ circIdx = 0
    /\ opened = [i \in Instruments |-> "unopened"]
    /\ dev \in {d \in DevInit : ~d.psOut /\ ~d.eloadIn}
    /\ io = [n |-> 0, inst |-> "none", cmd |-> "none", arg |-> 0]
    /\ trial = -1
    /\ vinIdx = 0
    /\ loadIdx = 0
    /\ loc = LocInit
    /\ data = <<>>
    /\ trialsDone = 0
    /\ intr = NoIntr
    /\ saved = <<>>
    /\ exc = NoExc
    /\ rg = RgInit
    /\ km = KmInit
    /\ fs = FsInit

SpecRigol == InitRigol /\ [][NextRigol]_vars

\* the interpreter keeps executing the loop of _wait(), and the device, asked
\* again and again, at some time answers that the operation is complete
SpecWait ==
    /\ InitRigol /\ [][NextRigol]_vars
    /\ WF_vars(RgWaitPoll)
    /\ SF_vars(RgWaitPoll /\ rg'.resp # <<>> /\ rg'.resp[1] = "1")

\* calls of handleFilename and dataSaveNPZ in a directory as found
InitFiles ==
    /\ args = [trials |-> 1, circuits |-> <<"1V8-A">>]
    /\ param = SmallParam
    /\ pc = "main_pre"
    /\ ip = 1
    /\ circIdx = 0
    /\ opened = [i \in Instruments |-> "unopened"]
    /\ dev \in {d \in DevInit : ~d.psOut /\ ~d.eloadIn}
    /\ io = [n |-> 0, inst |-> "none", cmd |-> "none", arg |-> 0]
    /\ trial = -1
    /\ vinIdx = 0
    /\ loadIdx = 0
    /\ loc = LocInit
    /\ data = <<>>
    /\ trialsDone = 0
    /\ intr = NoIntr
    /\ saved = <<>>
    /\ exc = NoExc
    /\ rg = RgInit
    /\ km = KmInit
    /\ fs \in {[FsInit EXCEPT !.files = f] : f \in FsFound}

SpecFiles == InitFiles /\ [][NextFiles]_vars

\* calls of a Keithley6500 object, in any order
SpecDmm == InitRigol /\ [][NextDmm]_vars

\* calls of one of the two driver objects, in any order
NextDrivers ==
    \/ km = KmInit /\ NextRigol
    \/ rg = RgInit /\ NextDmm

SpecDrivers == InitRigol /\ [][NextDrivers]_vars


(* ============================== properties ============================= *)
VL == Len(param.vins) * Len(param.loads)

\* the position in data of the sample of trial t, vins[i], loads[j]
RowIndex(t, i, j) ==
    (t - 1) * VL + (i - 1) * Len(param.loads) + j

\* DCTest is past its loops, which no signal cut short
LoopsCompleted == pc \in {"eload_off", "persist", "stop"} /\ intr.k = -1

(* C1: a run of DCTest that completes without interrupt or error has appended
   exactly trials x |vins| x |loads| rows, one for every (trial, input-voltage
   position, load position): the row of each combination is there once, at
   its own position, and there is no other row. *)
C1_SweepPointCount ==
    LoopsCompleted =>
        /\ Len(data) = args.trials * Len(param.vins) * Len(param.loads)
        /\ \A t \in 1..args.trials, i \in 1..Len(param.vins), j \in 1..Len(param.loads) :
              /\ RowIndex(t, i, j) \in 1..Len(data)
              /\ data[RowIndex(t, i, j)][1] = t
              /\ data[RowIndex(t, i, j)][2] = param.vins[i]
              /\ data[RowIndex(t, i, j)][3] = param.loads[j]
        /\ \A k \in 1..Len(data) :
              \E t \in 1..args.trials, i \in 1..Len(param.vins), j \in 1..Len(param.loads) :
                 k = RowIndex(t, i, j)

C1_Witness ==
    /\ LoopsCompleted /\ pc = "stop"
    /\ args.trials = MaxTrials
    /\ Len(param.vins) = MaxVins
    /\ Len(param.loads) = MaxLoads
    /\ Len(data) = MaxTrials * MaxVins * MaxLoads

\* the trials all of whose |vins| x |loads| rows are in rows
FullTrials(rows) ==
    Cardinality({t \in 1..args.trials :
                   Cardinality({k \in 1..Len(rows) : rows[k][1] = t}) = VL})

LastSaved == saved[Len(saved)]

\* the dataset of the current run was handed to dataSaveNPZ after a signal
SavedAfterSignal == pc = "stop" /\ intr.k >= 0

(* C2: after a signal taken anywhere in the loops with k rows appended, the
   dataset handed to the persistence function has exactly those k rows and
   its completed-trial count is the number of trials all of whose rows are
   in it. *)
C2_PartialDataset ==
    SavedAfterSignal =>
        /\ Len(LastSaved.rows) = intr.k
        /\ LastSaved.meta[3] = FullTrials(LastSaved.rows)

\* a command that programs a setpoint
Setpoint(c) ==
    \/ c.inst = "PS" /\ c.cmd \in {"setVoltage", "setCurrent"}
    \/ c.inst = "ELOAD" /\ c.cmd = "setCurrent"

\* every teardown step of the current run has been done and DCTest returned
TornDown ==
    /\ pc = "main_loop"
    /\ circIdx >= 1
    /\ Len(saved) = circIdx
    /\ LastSaved.rows = data
    /\ ~dev.eloadIn /\ ~dev.ptbPower /\ ~dev.psOut
    /\ \A i \in Instruments : dev.panel[i] = "local"

\* the statements of DCTest from the except clause to its last line
TeardownPcs == {"except", "eload_off", "persist", "stop"}

(* C3: once a signal was taken inside the sweep loops, no row is appended and
   no setpoint is programmed any more in that run, and the run goes on to do
   the whole teardown (load input off, dataset persisted, load and multimeter
   stopped, power path disabled, supply stopped) and to return to the driver,
   unless a later, separate failure inside the teardown (an instrument or
   file error, a further signal) ends the process first. *)
C3_SignalToTeardown ==
    /\ [](intr.k >= 0 => Len(data) = intr.k)
    /\ [][(intr.k >= 0 /\ intr' = intr /\ io' # io) => ~Setpoint(io')]_vars
    /\ (pc = "except") ~> \/ TornDown /\ intr.k >= 0
                          \/ pc = "crashed" /\ exc.at \in TeardownPcs

C3_Witness ==
    /\ TornDown
    /\ intr.k >= 1
    /\ intr.at = "measure"
    /\ Len(LastSaved.rows) = intr.k

(* C4 as stated: when an instrument operation inside the sweep fails with an
   error other than the signal, control does not leave DCTest before the load
   input, the power path and the supply output are off and the instruments
   are back under local control. *)
C4_TeardownOnError ==
    (pc = "crashed" /\ exc.at \in TryPcs /\ exc.kind \in {"ValueError", "TransportError"})
        => /\ ~dev.eloadIn /\ ~dev.ptbPower /\ ~dev.psOut
           /\ \A i \in Instruments : dev.panel[i] = "local"

(* C5 as stated: when the driver has ended, normally or by any exception, no
   instrument session that was opened is still open. *)
C5_ClosedOnEveryExit ==
    pc \in {"done", "crashed"} => \A i \in Instruments : opened[i] # "open"

(* C6: every command or query is issued to an instrument whose session is
   open: after its open() and before its close(). *)
C6_OnlyWhileOpen ==
    [][(io' # io /\ io'.inst \in Instruments)
          => (opened[io'.inst] = "open" /\ opened'[io'.inst] = "open")]_vars

C6_Witness ==
    /\ pc = "done"
    /\ Len(args.circuits) = MaxCircuits
    /\ Len(saved) = MaxCircuits
    /\ io.inst = "PS" /\ io.cmd = "setLocal"
    /\ \A i \in Instruments : opened[i] = "closed"

ValidChannel(n) == 1 <= n /\ n <= max_chan

(* C7: _chStr and _chanStr succeed exactly for the channels 1..max_chan (0 and
   4 fail, 1, 2 and 3 succeed), failing with ValueError otherwise; a call of
   either sends and receives nothing and leaves the session as it was. *)
C7_ValidateChannel ==
    /\ [](/\ rg.op \in {"_chStr", "_chanStr"} =>
               /\ rg.outcome = "returned" <=> ValidChannel(rg.chan)
               /\ rg.outcome = "raised" <=> ~ValidChannel(rg.chan)
               /\ rg.outcome = "raised" => rg.err = "ValueError"
               /\ rg.sent = <<>> /\ rg.resp = <<>>
          /\ \A n \in {0, 4} : ~chStr(n).ok /\ ~chanStr(n).ok
          /\ \A n \in {1, 2, 3} : chStr(n).ok /\ chanStr(n).ok
          /\ \A n \in ChannelArgs : chStr(n).ok = ValidChannel(n)
                                    /\ chanStr(n).ok = ValidChannel(n))
    /\ [][(rg' # rg /\ rg'.op \in {"_chStr", "_chanStr"})
             => (rg'.session = rg.session /\ rg'.pc = rg.pc)]_vars

C7_Witness ==
    /\ rg.op = "_chanStr"
    /\ rg.chan = max_chan + 1
    /\ rg.outcome = "raised"
    /\ rg.session = "open"

ChannelOps == {"isOutputOn", "outputOn", "outputOff", "setVoltage", "setCurrent",
               "queryVoltage", "queryCurrent", "measureVoltage", "measureCurrent"}

(* C8: a channel-addressed operation called with a channel outside
   1..max_chan raises (ValueError on an open session) with nothing sent to
   the device; whatever such an operation sends names the channel it was
   called with. *)
C8_InvalidChannelSendsNothing ==
    rg.op \in ChannelOps =>
        /\ ~ValidChannel(rg.chan) =>
              /\ rg.outcome = "raised"
              /\ rg.sent = <<>>
              /\ rg.session = "open" => rg.err = "ValueError"
        /\ rg.sent # <<>> =>
              /\ ValidChannel(rg.chan)
              /\ Len(rg.sent) = 1
              /\ rg.sent[1].ch \in {FormatCH(rg.chan), FormatN(rg.chan)}

C8_Witness ==
    /\ rg.op = "outputOn"
    /\ rg.chan = 0
    /\ rg.session = "open"
    /\ rg.outcome = "raised"
    /\ rg.sent = <<>>

BeginsWithON(text) == Len(text) >= 2 /\ text[1] = "O" /\ text[2] = "N"

(* C9: the ON/OFF parser answers true exactly for the responses that begin
   with the two characters ON ("ON", "ON\n", "ON  "), false for "OFF", for
   the empty response and for every other response; isOutputOn returns what
   the parser makes of the response it received. *)
C9_OnOffParsing ==
    /\ \A r \in RgResponses : onORoff(r) = BeginsWithON(r)
    /\ onORoff(<<"O", "N">>) /\ onORoff(<<"O", "N", "\n">>)
    /\ onORoff(<<"O", "N", " ", " ">>)
    /\ ~onORoff(<<"O", "F", "F">>) /\ ~onORoff(<<>>)
    /\ (rg.op = "isOutputOn" /\ rg.outcome = "returned") =>
          /\ rg.ret.kind = "bool"
          /\ rg.ret.b = BeginsWithON(rg.resp)

C9_Witness ==
    /\ rg.op = "isOutputOn"
    /\ rg.outcome = "returned"
    /\ rg.resp = <<"O", "N", "\n">>
    /\ rg.ret.b

Complete(text) == text # <<>> /\ text[1] = "1"

(* C10: _wait returns only after it wrote *OPC and a later *OPC? query was
   answered with a text whose first character is 1; an answer that does not
   report completion leaves it in the loop, where all it does is query again. *)
C10_WaitReturnsOnComplete ==
    /\ []((rg.op = "_wait" /\ rg.outcome = "returned") =>
             /\ Len(rg.sent) >= 2
             /\ rg.sent[1].text = "*OPC"
             /\ rg.sent[Len(rg.sent)].text = "*OPC?"
             /\ Complete(rg.resp))
    /\ []((rg.op = "_wait" /\ rg.pc = "polling") =>
             /\ rg.outcome = "none"
             /\ rg.sent[1].text = "*OPC"
             /\ Len(rg.sent) >= 2 => ~Complete(rg.resp))
    /\ [][(rg.pc = "polling" /\ rg' # rg) =>
             /\ rg'.op = "_wait"
             /\ rg'.sent[Len(rg'.sent)].text = "*OPC?"
             /\ rg'.outcome = "returned" => Complete(rg'.resp)
             /\ (rg'.outcome = "none" /\ rg'.pc = "polling") \/ rg'.outcome # "none"]_vars

C10_Witness ==
    /\ rg.op = "_wait"
    /\ rg.outcome = "returned"
    /\ Len(rg.sent) = MaxSent
    /\ Complete(rg.resp)


\* the selected function and channel of the multimeter object
KmSelection(r) == <<r.functionStr, r.channel, r.selected>>

(* C11: the multimeter methods with no hardware meaning (setRemote,
   setRemoteLock, beeperOn, beeperOff, outputOn, outputOff, outputOnAll,
   outputOffAll, inputOn, inputOff, inputOnAll, inputOffAll) return normally
   whatever the state of the object and whatever was called before, send
   nothing, and leave the session, the selected function and the selected
   channel as they were. *)
C11_NoOpsAreSilent ==
    /\ [](km.op \in KmNoOps =>
             /\ km.outcome = "returned"
             /\ km.err = "none"
             /\ km.ret = NoRet
             /\ km.sent = <<>>)
    /\ [][(km' # km /\ km'.op \in KmNoOps) =>
             /\ KmSelection(km') = KmSelection(km)
             /\ km'.session = km.session]_vars

C11_Witness ==
    /\ km.op = "inputOff"
    /\ km.outcome = "returned"
    /\ km.session = "closed"
    /\ km.functionStr = "CurrentDC"
    /\ km.channel = 2

(* C12: on the multimeter isOutputOn answers as isInputOn does, for every
   channel argument: true, the input being always on. *)
C12_OutputOnIsInputOn ==
    km.op \in {"isOutputOn", "isInputOn"} =>
        /\ km.outcome = "returned"
        /\ km.ret = BoolRet(TRUE)

(* C13: setMeasureFunction called with a name that is no key of the function
   table raises ValueError, sends nothing, and leaves the selected function
   and the selected channel as they were, also when a channel is passed. *)
C13_UnknownFunctionRejected ==
    /\ []((km.op = "setMeasureFunction" /\ km.function \notin DOMAIN functions) =>
             /\ km.outcome = "raised"
             /\ km.err = "ValueError"
             /\ km.sent = <<>>
             /\ km.functionStr \in DOMAIN functions \cup {NoneStr})
    /\ [][(km' # km /\ km'.op = "setMeasureFunction"
                    /\ km'.function \notin DOMAIN functions) =>
             /\ KmSelection(km') = KmSelection(km)
             /\ km'.session = km.session]_vars

C13_Witness ==
    /\ km.op = "setMeasureFunction"
    /\ km.function = "Bogus"
    /\ km.chan = 2
    /\ km.channel = 1
    /\ km.functionStr = "CurrentDC"
    /\ km.session = "open"
    /\ km.outcome = "raised"

\* the methods that take the function from the object when it is omitted
KmDependents == {"setAutoZero", "setRelativeOffset", "queryRelativeOffset",
                 "setRelativeOffsetState"}

(* C14: setAutoZero, setRelativeOffset, queryRelativeOffset and
   setRelativeOffsetState called without a function act on the function of
   the last setMeasureFunction call that succeeded; a setMeasureFunction call
   that failed in between has not changed it. *)
C14_OmittedFunctionIsLastSelected ==
    (km.op \in KmDependents /\ km.function = NoneStr /\ km.sent # <<>>) =>
        /\ km.selected \in DOMAIN functions
        /\ km.sent[1].fn = functions[km.selected]

(* C15: setAutoZero, setRelativeOffset and setRelativeOffsetState, when the
   function they act on is a key of the function table outside the
   allow-list, raise ValueError with nothing sent to the device. *)
C15_UnsupportedAdjustmentRejected ==
    (/\ km.op \in {"setAutoZero", "setRelativeOffset", "setRelativeOffsetState"}
     /\ km.used \in DOMAIN functions
     /\ functions[km.used] \notin allowedFunctions) =>
        /\ km.outcome = "raised"
        /\ km.sent = <<>>
        /\ km.session = "open" => km.err = "ValueError"


\* this step appends a row to data
Appends == Len(data') = Len(data) + 1 /\ pc = "append"

\* the row this step appends
NewRow == data'[Len(data')]

\* the fraction <<n, d>> is 100 * outputPower / inputPower
IsPercent(frac, outputPower, inputPower) ==
    frac[2] # 0 /\ inputPower # 0 /\ frac[1] * inputPower = 100 * outputPower * frac[2]

(* C16: every row DCTest appends holds, for the voltages and currents measured
   in its iteration, inputPower = inputVoltage x inputCurrent, outputPower =
   outputVoltage x outputCurrent and efficiencyPercent = 100 x outputPower /
   inputPower; 5 V x 2 A out of 12 V x 1 A in is 83.33 percent. *)
C16_DerivedValues ==
    /\ [](\A k \in 1..Len(data) :
             /\ data[k][6] = data[k][4] * data[k][5]
             /\ data[k][9] = data[k][7] * data[k][8]
             /\ IsPercent(data[k][10], data[k][9], data[k][6]))
    /\ [](LET e == Efficiency(50 * 200, 120 * 100)
          IN  (e[1] * 100) \div e[2] = 8333)
    /\ [][Appends =>
             /\ NewRow[4] = loc.psVoltage
             /\ NewRow[7] = loc.outVoltage
             /\ NewRow[8] = loc.outCurrent
             /\ NewRow[6] = loc.psVoltage * NewRow[5]
             /\ NewRow[9] = loc.outVoltage * loc.outCurrent]_vars

C16_Witness ==
    /\ Len(data) = MaxTrials * MaxVins * MaxLoads
    /\ data[Len(data)][9] = 18 * 2
    /\ data[Len(data)][6] = 120 * 20
    /\ data[Len(data)][10] = <<18 * 2 * 100, 120 * 20>>

(* C17: the inputCurrent of every row is the supply current measured in its
   iteration minus the current of the first baseline, the one measured with
   the supply output on and the power path of the circuit still off; that
   baseline does not change during the sweep, and the second baseline, read
   after the power path was enabled, is not what is subtracted. *)
C17_FirstBaselineSubtracted ==
    /\ [][Appends => NewRow[5] = loc.psCurrent - loc.startI]_vars
    /\ [][(pc = "dc_init" /\ loc'.startI # loc.startI) =>
             (dev.psOut /\ ~dev.ptbPower /\ loc'.baseI = loc.baseI)]_vars
    /\ [][(pc = "dc_init" /\ loc'.baseI # loc.baseI) =>
             (dev.psOut /\ dev.ptbPower /\ loc'.startI = loc.startI)]_vars
    /\ [][(pc \in TryPcs \cup TeardownPcs) =>
             (loc'.startI = loc.startI /\ loc'.baseI = loc.baseI)]_vars

C17_Witness ==
    /\ Len(data) >= 2
    /\ loc.startI = 5
    /\ loc.baseI = 25
    /\ \A k \in 1..Len(data) : data[k][5] = 25 - 5


\* control has left the sweep of the current run, and DCTest after it, with
\* no signal delivered after the sweep ended
SweepEndedAndLeft ==
    /\ circIdx >= 1
    /\ \/ pc = "main_loop"
       \/ pc = "crashed" /\ exc.at \in TeardownPcs /\ exc.kind # "KeyboardInterrupt"

(* C18: when DCTest is left after a sweep that ended normally or by a signal,
   the persistence function has been invoked exactly once in the run, with the
   rows accumulated, the header and the metadata (test kind, circuit,
   completed-trial count). *)
C18_PersistedOnce ==
    SweepEndedAndLeft =>
        /\ Len(saved) = circIdx
        /\ saved[circIdx] = [rows |-> data, header |-> header, meta |-> meta]

\* the statements of an iteration that are reached only after the iteration
\* has issued a command to an instrument, and before its row is appended
MidIteration == {"load_enable", "load_set", "measure", "append"}

(* C19: the signal that ends a sweep is never taken inside an iteration that
   has started to issue its commands: an iteration that has issued a command
   goes on to append its row before the signal is acted on. *)
C19_CooperativeCancellation ==
    intr.k >= 0 => intr.at \notin MidIteration

\* the responses that are numerals, and the number each one denotes
NumberOf(text) ==
    CASE text \in {<<"1">>, <<"1", "\n">>, <<"+", "1">>} -> [m |-> 1, e |-> 0]
      [] text \in {<<"0">>, <<"0", "\n">>}               -> [m |-> 0, e |-> 0]
      [] text = <<"1", "2", ".", "5", "0">>              -> [m |-> 125, e |-> 1]
      [] text = <<"-", "0", ".", "5", "\n">>             -> [m |-> 0 - 5, e |-> 1]
      [] OTHER                                           -> [m |-> 0, e |-> 0 - 1]

NumericText(text) == NumberOf(text).e >= 0

\* what a measurement method makes of the answer of its one query
MeasureOutcome(r) ==
    IF NumericText(r.resp)
    THEN r.outcome = "returned" /\ r.ret = FloatRet(NumberOf(r.resp))
    ELSE r.outcome = "raised" /\ r.err = "ValueError"

\* the measurement queries in the commands of a call
MeasureQueries(sent) ==
    {i \in 1..Len(sent) :
       sent[i].text \in {":MEAS:VOLT? {}", ":MEAS:CURRent? {}", "READ?"}}

(* C20: measureVoltage and measureCurrent of the supply and of the multimeter
   issue at most one measurement query per call; when the query was answered
   they return the number the answer denotes if it is a numeral, and raise
   ValueError to the caller if it is not, without asking again. *)
C20_MeasureParsesOnce ==
    /\ rg.op \in {"measureVoltage", "measureCurrent"} =>
          /\ Cardinality(MeasureQueries(rg.sent)) <= 1
          /\ Len(rg.sent) = Cardinality(MeasureQueries(rg.sent))
          /\ (rg.sent # <<>> /\ rg.err # "TransportError") => MeasureOutcome(rg)
          /\ rg.outcome = "returned" => Cardinality(MeasureQueries(rg.sent)) = 1
    /\ km.op \in {"measureVoltage", "measureCurrent"} =>
          /\ Cardinality(MeasureQueries(km.sent)) <= 1
          /\ (MeasureQueries(km.sent) # {} /\ km.err # "TransportError")
                => MeasureOutcome(km)
          /\ km.outcome = "returned" => Cardinality(MeasureQueries(km.sent)) = 1

C20_Witness ==
    /\ km.op = "measureVoltage"
    /\ km.outcome = "raised"
    /\ km.err = "ValueError"
    /\ km.resp = <<"1", ".", "2", ".">>
    /\ Cardinality(MeasureQueries(km.sent)) = 1


\* the command issued last was cmd(arg) to inst
LastWas(inst, cmd, arg) == io.inst = inst /\ io.cmd = cmd /\ io.arg = arg

\* this step issues cmd(arg) to inst
Issues(inst, cmd, arg) ==
    io' # io /\ io'.inst = inst /\ io'.cmd = cmd /\ io'.arg = arg

(* C21: for a non-zero load, a load that reported its input disabled gets
   setCurrent(load), inputOn(), setCurrent(load) in this order, and a load that
   reported it enabled gets setCurrent(load) alone; so the input is enabled
   only with the current load value programmed last, and the measurements of
   the iteration start right after setCurrent(load), the call that waits the
   settle time. *)
C21_LoadProgramming ==
    /\ [][Issues("ELOAD", "inputOn", 0) =>
            /\ load # 0 /\ loc.inputOn = 0
            /\ LastWas("ELOAD", "setCurrent", load)
            /\ dev.eloadCurr = load]_vars
    /\ [][(io' # io /\ pc \in TryPcs /\ LastWas("ELOAD", "inputOn", 0)) =>
            Issues("ELOAD", "setCurrent", load)]_vars
    /\ [][(io' # io /\ pc \in TryPcs /\ io.cmd = "isInputOn") =>
            /\ Issues("ELOAD", "setCurrent", load)
            /\ loc.inputOn = 1 => pc' \in {"measure", "crashed"}
            /\ loc.inputOn = 0 => pc' \notin {"measure"}]_vars
    /\ [][(~dev.eloadIn /\ dev'.eloadIn) => dev.eloadCurr = load]_vars
    /\ [][(Issues("PS", "measureVoltage", 0) /\ pc = "measure" /\ load # 0) =>
            /\ LastWas("ELOAD", "setCurrent", load)
            /\ dev.eloadIn /\ dev.eloadCurr = load]_vars

C21_Witness ==
    /\ pc = "measure" /\ ip = 2
    /\ load # 0 /\ loc.inputOn = 0
    /\ dev.eloadIn /\ dev.eloadCurr = load


\* the commands the instruments receive after the dataset was saved
TeardownOrder ==
    << <<"ELOAD", "inputOff">>, <<"ELOAD", "outputOff">>, <<"ELOAD", "beeperOn">>,
       <<"ELOAD", "setLocal">>,
       <<"DMM", "TRIG:CONT REST">>, <<"DMM", "-LOGOUT">>,
       <<"PTB", "powerEnable">>,
       <<"PS", "inputOff">>, <<"PS", "outputOff">>, <<"PS", "beeperOn">>,
       <<"PS", "setLocal">> >>

\* the dataset of the current run was handed to dataSaveNPZ
RunSaved == circIdx >= 1 /\ Len(saved) = circIdx

(* C22: in the teardown the load's input is disabled first, then the dataset
   is persisted, then the load and the multimeter are stopped (input and output
   off, beeper on, local control), then the power path of the board is
   disabled, and last the supply is stopped; the supply's output is not
   disabled while the power path is enabled. *)
C22_TeardownOrder ==
    /\ [][saved' # saved =>
            LastWas("ELOAD", "inputOff", 0) /\ ~dev.eloadIn /\ ~RunSaved]_vars
    /\ [][(io' # io /\ pc \in TeardownPcs /\ ~RunSaved) =>
            Issues("ELOAD", "inputOff", 0) /\ pc' \in {"persist", "crashed"}]_vars
    /\ [][(io' # io /\ pc \in TeardownPcs /\ RunSaved) =>
            \E i \in 1..Len(TeardownOrder) :
               /\ <<io'.inst, io'.cmd>> = TeardownOrder[i]
               /\ <<io.inst, io.cmd>> =
                     IF i = 1 THEN <<"ELOAD", "inputOff">> ELSE TeardownOrder[i - 1]
               /\ i = 1 => ip = 1
               /\ i > 1 => ip > 1]_vars
    /\ [][(Issues("PTB", "powerEnable", 0) /\ pc \in TeardownPcs) =>
            /\ RunSaved /\ ~dev.eloadIn
            /\ dev.panel["ELOAD"] = "local" /\ dev.panel["DMM"] = "local"
            /\ dev.psOut = dev'.psOut]_vars
    /\ [][(io' # io /\ io'.inst = "PS" /\ io'.cmd = "outputOff"
             /\ pc \in TeardownPcs) => ~dev.ptbPower]_vars

C22_Witness ==
    /\ pc = "main_loop" /\ RunSaved
    /\ Len(LastSaved.rows) >= 2
    /\ LastWas("PS", "setLocal", 0)
    /\ ~dev.psOut /\ ~dev.ptbPower /\ ~dev.eloadIn


\* what DCTest must have called before it enables the supply's output
BeforeOutputOn ==
    { <<"PS", "outputOff", 0>>,
      <<"DMM", "rst", 0>>, <<"DMM", "cls", 0>>,
      <<"DMM", "setRemoteLock", 0>>, <<"DMM", "beeperOff", 0>>,
      <<"ELOAD", "rst", 0>>, <<"ELOAD", "cls", 0>>,
      <<"ELOAD", "setRemoteLock", 0>>, <<"ELOAD", "beeperOff", 0>>,
      <<"ELOAD", "inputOff", 0>>, <<"ELOAD", "setFunction", 0>>,
      <<"ELOAD", "setSenseState", 1>>,
      <<"PS", "setVoltage", param.vins[1]>>, <<"PS", "setCurrent", param.max_iin>>,
      <<"PS", "setVoltageProtection", param.ovp>>, <<"PS", "voltageProtectionOn", 0>>,
      <<"PS", "setCurrentProtection", param.ocp>>, <<"PS", "currentProtectionOn", 0>> }

\* DCTest, in its initialization, has made the call c = <<inst, cmd, arg>>
CalledInInit(c) ==
    \E j \in 1..(ip - 1) :
       LET ins == DCInitBlock(param)[j]
       IN  <<ins.inst, ins.cmd, ins.arg>> = c

(* C23: DCTest enables the supply's output only after it switched it off,
   reset, cleared, locked and silenced the multimeter and the load, disabled
   the load's input and set its mode and sense inputs, and programmed the
   supply to the first input voltage with the current limit and both
   protections; it enables the power path of the board only after the first
   baseline was measured with the supply's output on. *)
C23_InitOrder ==
    /\ [][(pc # "dc_init" /\ pc' = "dc_init") => ip' = 1]_vars
    /\ [][(pc = "dc_init" /\ pc' = "dc_init") => ip' = ip + 1]_vars
    /\ [][(io' # io /\ io'.inst = "PS" /\ io'.cmd = "outputOn") =>
            /\ pc = "dc_init"
            /\ \A c \in BeforeOutputOn : CalledInInit(c)
            /\ ~dev.psOut /\ ~dev.eloadIn /\ ~dev.ptbPower
            /\ dev.psVolt = param.vins[1]
            /\ dev.panel["ELOAD"] = "locked"]_vars
    /\ [][(~dev.psOut /\ dev'.psOut) => Issues("PS", "outputOn", 0)]_vars
    /\ [][(io' # io /\ io'.inst = "PTB" /\ io'.arg = 1) =>
            /\ pc = "dc_init"
            /\ CalledInInit(<<"PS", "outputOn", 0>>) /\ dev.psOut
            /\ LastWas("PS", "measureCurrent", 0)
            /\ loc.startV \in Readings("PS", "measureVoltage")
            /\ loc.startI \in Readings("PS", "measureCurrent")
            /\ loc.baseV = 0 /\ loc.baseI = 0]_vars
    /\ [][(~dev.ptbPower /\ dev'.ptbPower) => Issues("PTB", "powerEnable", 1)]_vars

C23_Witness ==
    /\ pc = "dc_init"
    /\ dev.psOut /\ dev.ptbPower
    /\ dev.psVolt = param.vins[1]
    /\ dev.panel["ELOAD"] = "locked"
    /\ loc.startV = 120


\* the commands of the measurements of one iteration
MeasureOrder ==
    << <<"PS", "measureVoltage">>, <<"PS", "measureCurrent">>,
       <<"DMM", "setMeasureFunction">>, <<"DMM", "READ?">>,
       <<"ELOAD", "measureCurrent">> >>

\* the command issued last programmed the load for the current iteration
LoadProgrammed ==
    IF load = 0 THEN LastWas("ELOAD", "inputOff", 0)
                ELSE LastWas("ELOAD", "setCurrent", load)

(* C24: in every iteration the supply's voltage, then its current, are
   measured before the multimeter's voltage, which is measured before the
   load's current; the first measurement follows the programming of the load
   of the iteration and the row is appended right after the last one. *)
C24_MeasureOrder ==
    /\ [][(io' # io /\ pc = "measure") =>
            /\ ip \in 1..Len(MeasureOrder)
            /\ <<io'.inst, io'.cmd>> = MeasureOrder[ip]
            /\ IF ip = 1 THEN LoadProgrammed
                         ELSE <<io.inst, io.cmd>> = MeasureOrder[ip - 1]]_vars
    /\ [][(pc = "measure" /\ pc' = "measure") => ip' = ip + 1]_vars
    /\ [][(pc # "measure" /\ pc' = "measure") => ip' = 1 /\ LoadProgrammed']_vars
    /\ [][(pc # "append" /\ pc' = "append") =>
            pc = "measure" /\ Issues("ELOAD", "measureCurrent", 0)]_vars
    /\ [][Appends => LastWas("ELOAD", "measureCurrent", 0)]_vars
    /\ [][(pc \in TryPcs /\ pc # "measure") =>
            /\ loc'.psVoltage = loc.psVoltage /\ loc'.psCurrent = loc.psCurrent
            /\ loc'.outVoltage = loc.outVoltage
            /\ loc'.outCurrent = loc.outCurrent]_vars

C24_Witness ==
    /\ pc = "append" /\ load # 0 /\ Len(data) >= 1
    /\ LastWas("ELOAD", "measureCurrent", 0)
    /\ loc.psVoltage = 120 /\ loc.outVoltage = 18 /\ loc.outCurrent = 2


(* C25: an iteration whose input power is exactly zero does not end the run:
   DCTest is never left by an error of the computation of the row. *)
C25_ZeroInputPowerAppends ==
    ~(/\ pc = "crashed"
      /\ exc.at = "append"
      /\ loc.psVoltage * (loc.psCurrent - loc.startI) = 0)

\* the supply's output-off of the teardown, or a step after it, was attempted
SupplyOffAttempted ==
    io.inst = "PS" /\ io.cmd \in {"outputOff", "beeperOn", "setLocal"}

(* C26: a teardown step that fails does not end the teardown: DCTest is not
   left by the failure of a teardown step before disabling the supply's output
   was attempted. *)
C26_TeardownResilient ==
    (/\ pc = "crashed"
     /\ exc.at \in TeardownPcs
     /\ exc.kind \in {"TransportError", "OSError", "ValueError"})
        => SupplyOffAttempted

\* the statements of one iteration of the load loop before the row is computed
IterationPcs == {"load_zero", "load_query", "load_enable", "load_set", "measure"}

\* every value of row k is a value an instrument answered
RowMeasured(k) ==
    /\ data[k][4] \in Readings("PS", "measureVoltage")
    /\ data[k][5] + loc.startI \in Readings("PS", "measureCurrent")
    /\ data[k][7] \in Readings("DMM", "READ?")
    /\ data[k][8] \in Readings("ELOAD", "measureCurrent")

(* C27: a ValueError raised by an instrument operation inside an iteration
   leaves DCTest and reaches its caller: the iteration appends no row, the
   dataset keeps the rows of the earlier iterations only, every row of which
   holds measured values, and nothing is saved. *)
C27_ErrorsNotSwallowed ==
    /\ [][(exc'.kind = "ValueError" /\ exc.kind = "none" /\ pc \in TryPcs) =>
            pc' = "crashed" /\ data' = data /\ saved' = saved]_vars
    /\ [][pc = "crashed" => pc' = "crashed" /\ data' = data]_vars
    /\ []((pc = "crashed" /\ exc.kind = "ValueError" /\ exc.at \in IterationPcs) =>
            /\ Len(data) = RowIndex(trial + 1, vinIdx, loadIdx) - 1
            /\ Len(saved) = circIdx - 1)
    /\ [](\A k \in 1..Len(data) : RowMeasured(k))

C27_Witness ==
    /\ pc = "crashed" /\ exc.kind = "ValueError" /\ exc.at = "measure"
    /\ ip = 4
    /\ Len(data) >= 1
    /\ LastWas("DMM", "READ?", 0)


\* _wait() is in its loop
Polling == rg.op = "_wait" /\ rg.pc = "polling"

(* C28: _wait() has no timeout: an answer that is a text not starting with 1
   leaves it in the loop however many queries were made, and the one thing the
   loop does is query again; it returns only on an answer that reports
   completion, and it ends otherwise only by the exception of a statement (the
   transport's, or IndexError on an empty answer).  With a device that at some
   time answers completion it ends; without such an answer it never returns. *)
C28_WaitHasNoTimeout ==
    /\ [][(Polling /\ rg' # rg) =>
            /\ rg'.op = "_wait"
            /\ rg'.sent[Len(rg'.sent)].text = "*OPC?"
            /\ CASE rg'.err = "TransportError" -> rg'.outcome = "raised"
                 [] rg'.err # "TransportError" /\ rg'.resp = <<>> ->
                       rg'.outcome = "raised" /\ rg'.err = "IndexError"
                 [] rg'.err # "TransportError" /\ Complete(rg'.resp) ->
                       rg'.outcome = "returned"
                 [] OTHER -> Polling' /\ rg'.outcome = "none"]_vars
    /\ [](Polling => ENABLED RgWaitPoll)
    /\ []((rg.op = "_wait" /\ rg.outcome = "returned") => Complete(rg.resp))
    /\ []((rg.op = "_wait" /\ rg.outcome = "raised") =>
             rg.err \in {"AttributeError", "InvalidSession", "TransportError",
                         "IndexError"})
    /\ Polling ~> (rg.pc = "idle")

C28_Witness ==
    /\ Polling
    /\ Len(rg.sent) = MaxSent
    /\ \A i \in 2..MaxSent : rg.sent[i].text = "*OPC?"
    /\ rg.resp = <<"0", "\n">>


\* the name without path components and without extension of each argument
StemOf(fname) ==
    CASE fname = <<"DC_Test">>               -> <<"DC_Test">>
      [] fname = <<"DC_Test", ".", "npz">>   -> <<"DC_Test">>
      [] fname = <<"out", "/", "DC_Test">>   -> <<"DC_Test">>
      [] fname = <<"DC_Test", "/">>          -> <<"DC_Test">>

\* the path of the call in progress that carries suffix number n (0: none)
Candidate(n) ==
    <<"HOME", "/", "Downloads", "/">> \o StemOf(fs.fname)
      \o (IF fs.timestamp THEN <<"-", Strftime(fs.now)>> ELSE <<>>)
      \o (IF n = 0 THEN <<>> ELSE <<"-", FormatNum(n)>>)
      \o <<".", "npz">>

(* C29: handleFilename with unique=True returns a path at which no file
   exists: the path without suffix when it is free, otherwise the path with
   the smallest suffix -n, n >= 1, that is free; the number of names it tried
   is at most the number of files; the dataset saved under the returned name
   replaces no file, and every file that existed is still there. *)
C29_UniqueFilename ==
    /\ []((fs.pc = "named" /\ fs.unique) =>
            /\ fs.fn \notin fs.files
            /\ \E n \in 0..Cardinality(fs.files) :
                  /\ fs.fn = Candidate(n)
                  /\ \A m \in 0..(n - 1) : Candidate(m) \in fs.files)
    /\ [][(fs.pc = "named" /\ fs.unique /\ fs'.saves # fs.saves) =>
            /\ ~fs'.overwrote
            /\ fs'.files = fs.files \cup {fs.fn}
            /\ Cardinality(fs'.files) = Cardinality(fs.files) + 1]_vars
    /\ [][fs.files \subseteq fs'.files]_vars

C29_Witness ==
    /\ fs.pc = "named" /\ fs.unique /\ fs.timestamp
    /\ fs.saves = 1
    /\ fs.fn = Candidate(MaxSuffix + 2)


(* C30: at every point of a run of DCTest the rows accumulated number at least
   trialsDone x |vins| x |loads| and at most (trialsDone + 1) x |vins| x |loads|,
   and trialsDone is at most the configured trials; inside a run trialsDone
   never decreases and data changes only by a row appended at its end. *)
C30_CounterAndRows ==
    /\ [](/\ trialsDone * VL <= Len(data)
          /\ Len(data) <= (trialsDone + 1) * VL
          /\ trialsDone <= args.trials)
    /\ [][(pc \in TryPcs \cup TeardownPcs) =>
            /\ trialsDone' >= trialsDone
            /\ \/ data' = data
               \/ /\ Len(data') = Len(data) + 1
                  /\ SubSeq(data', 1, Len(data)) = data]_vars

C30_Witness ==
    /\ pc = "trial_done"
    /\ args.trials = MaxTrials
    /\ trialsDone = MaxTrials - 1
    /\ Len(data) = (trialsDone + 1) * VL
    /\ VL = MaxVins * MaxLoads


\* the k-th point of the sweep: <<trial from 1, set input voltage, set load>>
SweepPoint(k) ==
    LET nl == Len(param.loads)
        t  == (k - 1) \div VL
        i  == ((k - 1) % VL) \div nl
        j  == (k - 1) % nl
    IN  << t + 1, param.vins[i + 1], param.loads[j + 1] >>

\* rows are the first rows of a sweep, in sweep order
InSweepOrder(rows) ==
    \A k \in 1..Len(rows) : <<rows[k][1], rows[k][2], rows[k][3]>> = SweepPoint(k)

(* C31: the rows accumulated, and the rows of every dataset saved, are the
   first rows of the sweep in sweep order (trial, then input voltage, then
   load): row k holds the trial counted from 1 and the configured input
   voltage and load of the k-th sweep point, after a signal too. *)
C31_RowsInSweepOrder ==
    /\ Len(data) <= args.trials * VL
    /\ InSweepOrder(data)
    /\ \A n \in 1..Len(saved) : InSweepOrder(saved[n].rows)

C31_Witness ==
    /\ pc = "stop" /\ intr.k = VL + 1
    /\ VL = MaxVins * MaxLoads
    /\ Len(LastSaved.rows) = VL + 1
    /\ LastSaved.rows[VL + 1][1] = 2


(* C32: while the measurements of an iteration are taken and its row is
   computed, the load's input is enabled if and only if the load value of the
   iteration is not zero, whatever the load sequence and whatever the
   iterations before, of this or an earlier input voltage or trial, left. *)
C32_InputMatchesLoad ==
    (pc \in {"measure", "append"}) => (dev.eloadIn <=> load # 0)

C32_Witness ==
    /\ pc = "measure" /\ ip = 3
    /\ trial >= 1 /\ vinIdx = MaxVins
    /\ load = 0 /\ ~dev.eloadIn
    /\ loadIdx >= 2 /\ param.loads[1] # 0

\* the function each measuring method selects
MeasuredFunction ==
    [measureVoltage |-> "VoltageDC", measureCurrent |-> "CurrentDC",
     measureResistance |-> "Resistance2W"]

(* C33: measureVoltage, measureCurrent and measureResistance leave VoltageDC,
   CurrentDC and Resistance2W as the saved function of the multimeter,
   whatever was saved before and however the call ended; setAutoZero,
   setRelativeOffset, queryRelativeOffset or setRelativeOffsetState called
   next with the function omitted uses the measured function, and any command
   it sends carries that function's command string. *)
C33_MeasureSelectsFunction ==
    /\ [](km.op \in DOMAIN MeasuredFunction =>
             km.functionStr = MeasuredFunction[km.op])
    /\ [][(/\ km.op \in DOMAIN MeasuredFunction
           /\ km'.op \in KmDependents
           /\ km'.function = NoneStr) =>
             /\ km'.used = MeasuredFunction[km.op]
             /\ km'.functionStr = MeasuredFunction[km.op]
             /\ km'.sent # <<>> =>
                   km'.sent[1].fn = functions[MeasuredFunction[km.op]]]_vars

\* setAutoZero without a function has sent the command for Resistance2W, which
\* only measureResistance saves, while the last setMeasureFunction call of
\* the caller that returned selected another function or none
C33_Witness ==
    /\ km.op = "setAutoZero"
    /\ km.function = NoneStr
    /\ km.used = "Resistance2W"
    /\ km.functionStr = "Resistance2W"
    /\ km.outcome = "returned"
    /\ Len(km.sent) = 1
    /\ km.sent[1].fn = "RES"

(* C34: while no function is saved in the multimeter object, setAutoZero,
   setRelativeOffset, queryRelativeOffset and setRelativeOffsetState called
   with the function omitted raise ValueError with nothing sent and nothing
   read, whatever the state of the session; and a call of one of the four
   with an explicit function leaves the saved function as it was. *)
C34_NoFunctionRejected ==
    /\ []((/\ km.op \in KmDependents
           /\ km.function = NoneStr
           /\ km.functionStr = NoneStr) =>
             /\ km.outcome = "raised"
             /\ km.err = "ValueError"
             /\ km.sent = <<>>
             /\ km.resp = <<>>)
    /\ [][(km'.op \in KmDependents /\ km'.function # NoneStr) =>
             km'.functionStr = km.functionStr]_vars

C34_Witness ==
    /\ km.op = "queryRelativeOffset"
    /\ km.function = NoneStr
    /\ km.functionStr = NoneStr
    /\ km.session = "open"
    /\ km.outcome = "raised"
    /\ km.err = "ValueError"
    /\ km.sent = <<>>

(* C35: a signal taken inside the sweep of a circuit that is not the last of
   the list ends that run only: DCTest does its teardown, persists the rows it
   has and returns, and the driver starts DCTest for the next circuit; every
   run that returns has done the whole teardown and persisted one dataset, a
   run that took no signal has persisted the rows of the full sweep, and the
   instruments are closed only after the last circuit, with one dataset per
   circuit. The run after the signal is not started only when a separate
   failure (an instrument or file error or a further signal inside the
   teardown, a circuit without parameters) ends the process. *)
C35_SignalEndsOneSweep ==
    /\ [](pc \in {"main_close", "done"} =>
             /\ circIdx = Len(circuit_list)
             /\ Len(saved) = Len(circuit_list))
    /\ []((pc = "main_loop" /\ circIdx >= 1) =>
             /\ TornDown
             /\ intr.k < 0 => Len(data) = args.trials * VL)
    /\ \A c \in 1..MaxCircuits :
          (pc = "except" /\ circIdx = c /\ c < Len(circuit_list)) ~>
              \/ pc = "dc_init" /\ circIdx = c + 1 /\ Len(saved) = c
              \/ pc = "crashed" /\ exc.at \in TeardownPcs \cup {"main_loop"}
    /\ (pc = "dc_init") ~> (pc \in {"main_loop", "crashed"})
    /\ (pc = "except") ~> (pc \in {"done", "crashed"})

\* the driver has closed the instruments after two runs: the first was ended
\* by a signal after one row, the second swept every point
C35_Witness ==
    /\ pc = "done"
    /\ exc = NoExc
    /\ Len(saved) = 2
    /\ Len(saved[1].rows) = 1
    /\ Len(saved[2].rows) = args.trials * VL
    /\ intr.k < 0

\* the statements of DCTest before `try:` and after the except clause begins
OutsideTry == {"dc_init", "dc_vars", "except", "eload_off", "persist", "stop"}

\* the statements of DCTest before the dataset is handed to dataSaveNPZ
BeforeSave == {"dc_init", "dc_vars", "except", "eload_off", "persist"}

\* a signal raised in DCTest outside the try block has ended the process
SignalOutsideTry ==
    pc = "crashed" /\ exc.kind = "KeyboardInterrupt" /\ exc.at \in OutsideTry

(* C36: a signal raised while DCTest is at a statement outside its try block
   (initialization, or the teardown from the except clause on) is never taken
   by the except clause: it leaves DCTest and the driver, which does not
   catch it; the step that raises it issues no command and stores nothing, no
   statement is executed after it, so whatever the instruments were left at
   stays; and a signal raised before the save leaves no dataset of that run. *)
C36_SignalOutsideTryPropagates ==
    /\ [](SignalOutsideTry =>
             /\ exc.at \in BeforeSave => Len(saved) = circIdx - 1
             /\ exc.at = "stop" => Len(saved) = circIdx)
    /\ [][(pc \in OutsideTry) => (pc' # "except" /\ intr' = intr)]_vars
    /\ [][(exc'.kind = "KeyboardInterrupt" /\ exc.kind # "KeyboardInterrupt") =>
             /\ pc' = "crashed"
             /\ exc'.at = pc
             /\ UNCHANGED <<dev, io, opened, saved, data, circIdx>>]_vars
    /\ [][pc # "crashed"]_vars

\* a signal at ELOAD.inputOff() after a sweep that sampled rows: the process
\* has ended with the rows unsaved, the load's input, the power path and the
\* supply's output still on
C36_Witness ==
    /\ SignalOutsideTry
    /\ exc.at = "eload_off"
    /\ Len(data) >= 1
    /\ Len(saved) = circIdx - 1
    /\ dev.eloadIn /\ dev.ptbPower /\ dev.psOut

====
